---- MODULE Spec2Model ----
(***************************************************************************)
(* A model of the metrics-aggregation core of gitlab-automation-suite:     *)
(* app/main/logic.py (ReportGenerator, AutomationLogic) over the Issue     *)
(* Source reached through app/main/services.py (GitLabService).            *)
(*                                                                         *)
(* Conventions                                                             *)
(*   - a Python str is a sequence of one-character strings, so that        *)
(*     split / strip / lower / startswith / "in" are computed, not assumed *)
(*   - a Python float is an IEEE-754 double: a sign, a 53-bit mantissa     *)
(*     (little-endian bit sequence) and the exponent of its lowest bit;    *)
(*     true division, multiplication and subtraction round to nearest,     *)
(*     ties to even, as CPython does                                       *)
(*   - a Python dict is a sequence of <<key, value>> pairs in insertion    *)
(*     order                                                               *)
(*   - each report has its own specification (SpecEscape, SpecTrend, ...); *)
(*     the variables of the other reports stay at their idle values        *)
(***************************************************************************)
EXTENDS Integers, Sequences, FiniteSets, TLC

(***************************************************************************)
(* Bounds of the model                                                     *)
(***************************************************************************)
\* issue ids 1..MaxIssues exist (or not) in an Issue Source snapshot
MaxIssues == 2
\* the trend report is asked for 0..MaxMonths months
MaxMonths == 3
\* the Issue Source holds at most MaxLabelEvents label events, over all issues
MaxLabelEvents == 3
\* and at most MaxMilestoneEvents milestone events, over all issues
MaxMilestoneEvents == 2

(***************************************************************************)
(* Generic sequence helpers                                                *)
(***************************************************************************)
RECURSIVE SeqOfSet(_)
\* the elements of a finite set of integers or records, one fixed order
SeqOfSet(S) ==
  IF S = {} THEN <<>>
  ELSE LET x == CHOOSE y \in S : TRUE IN <<x>> \o SeqOfSet(S \ {x})

\* every ordering of the elements of S (the orders a query may answer in)
Orderings(S) ==
  { s \in [1..Cardinality(S) -> S] : \A i, j \in DOMAIN s : i # j => s[i] # s[j] }

Range(s) == { s[i] : i \in DOMAIN s }

RECURSIVE Repeat(_, _)
Repeat(x, n) == IF n <= 0 THEN <<>> ELSE <<x>> \o Repeat(x, n - 1)

(***************************************************************************)
(* Python str operations on character sequences                            *)
(***************************************************************************)
IsSpace(c) == c = " "

RECURSIVE LStrip(_)
LStrip(s) == IF s # <<>> /\ IsSpace(Head(s)) THEN LStrip(Tail(s)) ELSE s

RECURSIVE RStrip(_)
RStrip(s) ==
  IF s # <<>> /\ IsSpace(s[Len(s)]) THEN RStrip(SubSeq(s, 1, Len(s) - 1)) ELSE s

\* str.strip()
Strip(s) == RStrip(LStrip(s))

RECURSIVE SplitAcc(_, _, _)
SplitAcc(s, sep, cur) ==
  IF s = <<>> THEN <<cur>>
  ELSE IF Head(s) = sep THEN <<cur>> \o SplitAcc(Tail(s), sep, <<>>)
  ELSE SplitAcc(Tail(s), sep, Append(cur, Head(s)))

\* str.split(sep) for a one-character separator: "" splits to [""]
Split(s, sep) == SplitAcc(s, sep, <<>>)

\* str.startswith(p)
StartsWith(s, p) == Len(s) >= Len(p) /\ SubSeq(s, 1, Len(p)) = p

\* p in s (substring test)
Contains(s, p) ==
  \E i \in 1..(Len(s) - Len(p) + 1) : SubSeq(s, i, i + Len(p) - 1) = p

UpperToLower ==
  [c \in {"A","B","C","D","E","F","G","H","I","J","K","L","M","N","O","P","Q",
          "R","S","T","U","V","W","X","Y","Z"} |->
     CASE c = "A" -> "a" [] c = "B" -> "b" [] c = "C" -> "c" [] c = "D" -> "d"
       [] c = "E" -> "e" [] c = "F" -> "f" [] c = "G" -> "g" [] c = "H" -> "h"
       [] c = "I" -> "i" [] c = "J" -> "j" [] c = "K" -> "k" [] c = "L" -> "l"
       [] c = "M" -> "m" [] c = "N" -> "n" [] c = "O" -> "o" [] c = "P" -> "p"
       [] c = "Q" -> "q" [] c = "R" -> "r" [] c = "S" -> "s" [] c = "T" -> "t"
       [] c = "U" -> "u" [] c = "V" -> "v" [] c = "W" -> "w" [] c = "X" -> "x"
       [] c = "Y" -> "y" [] c = "Z" -> "z"]

\* str.lower()
Lower(s) == [i \in DOMAIN s |-> IF s[i] \in DOMAIN UpperToLower THEN UpperToLower[s[i]] ELSE s[i]]

(***************************************************************************)
(* Unbounded naturals as little-endian bit sequences (no high zero bits;   *)
(* zero is the empty sequence): the carrier of the 53-bit mantissas        *)
(***************************************************************************)
\* bits of one limb of the limb-wise arithmetic below
LimbBits == 15
LimbBase == 2 ^ LimbBits

\* the sequence s reversed
Reverse(s) == [i \in 1..Len(s) |-> s[Len(s) - i + 1]]

\* the number of bits of n, 0 <= n < 2^30
BitLen(n) == IF n = 0 THEN 0 ELSE CHOOSE k \in 1..30 : 2 ^ (k - 1) <= n /\ n < 2 ^ k

BitsOfNat(n) == [i \in 1..BitLen(n) |-> (n \div (2 ^ (i - 1))) % 2]

\* a without its high zero bits
BigTrim(a) ==
  LET n == IF \E i \in 1..Len(a) : a[i] = 1
           THEN CHOOSE i \in 1..Len(a) : a[i] = 1 /\ \A k \in (i + 1)..Len(a) : a[k] = 0
           ELSE 0
  IN SubSeq(a, 1, n)

\* a * 2^k
BigShl(a, k) == IF a = <<>> THEN <<>> ELSE [i \in 1..k |-> 0] \o a

RECURSIVE LimbValue(_, _, _)
\* the number the bits a[i..hi] stand for
LimbValue(a, i, hi) ==
  IF i > hi THEN 0
  ELSE (IF i <= Len(a) THEN a[i] ELSE 0) + 2 * LimbValue(a, i + 1, hi)

\* a in base LimbBase, little-endian
LimbsOfBits(a) ==
  [k \in 1..((Len(a) + LimbBits - 1) \div LimbBits) |->
     LimbValue(a, (k - 1) * LimbBits + 1, k * LimbBits)]

BitsOfLimbs(x) ==
  BigTrim([i \in 1..(Len(x) * LimbBits) |->
             (x[((i - 1) \div LimbBits) + 1] \div (2 ^ ((i - 1) % LimbBits))) % 2])

RECURSIVE LimbAddC(_, _, _)
LimbAddC(x, y, c) ==
  IF x = <<>> /\ y = <<>> THEN (IF c = 0 THEN <<>> ELSE <<c>>)
  ELSE LET t == (IF x = <<>> THEN 0 ELSE Head(x)) + (IF y = <<>> THEN 0 ELSE Head(y)) + c
       IN <<t % LimbBase>> \o LimbAddC(IF x = <<>> THEN <<>> ELSE Tail(x),
                                      IF y = <<>> THEN <<>> ELSE Tail(y), t \div LimbBase)

BigAdd(a, b) == BitsOfLimbs(LimbAddC(LimbsOfBits(a), LimbsOfBits(b), 0))

RECURSIVE LimbSubB(_, _, _)
LimbSubB(x, y, w) ==
  IF x = <<>> THEN <<>>
  ELSE LET t == Head(x) - (IF y = <<>> THEN 0 ELSE Head(y)) - w
       IN <<t % LimbBase>> \o LimbSubB(Tail(x), IF y = <<>> THEN <<>> ELSE Tail(y),
                                      IF t < 0 THEN 1 ELSE 0)

\* a - b for a >= b
BigSub(a, b) == BitsOfLimbs(LimbSubB(LimbsOfBits(a), LimbsOfBits(b), 0))

\* -1, 0, 1 as a < b, a = b, a > b
BigCmp(a, b) ==
  IF Len(a) > Len(b) THEN 1
  ELSE IF Len(a) < Len(b) THEN -1
  ELSE IF a = b THEN 0
  ELSE LET i == CHOOSE i \in 1..Len(a) :
                  a[i] # b[i] /\ \A k \in (i + 1)..Len(a) : a[k] = b[k]
       IN IF a[i] > b[i] THEN 1 ELSE -1

RECURSIVE LimbMulC(_, _, _)
LimbMulC(x, n, c) ==
  IF x = <<>> THEN (IF c = 0 THEN <<>> ELSE <<c>>)
  ELSE LET t == Head(x) * n + c
       IN <<t % LimbBase>> \o LimbMulC(Tail(x), n, t \div LimbBase)

\* a * n for an int n, 0 <= n < LimbBase
BigMulInt(a, n) == BitsOfLimbs(LimbMulC(LimbsOfBits(a), n, 0))

RECURSIVE LimbDiv(_, _, _, _)
\* long division by an int d, 0 < d < LimbBase, from the highest limb (index
\* i) down: the quotient's limbs, highest first, then the last remainder
LimbDiv(x, d, i, rem) ==
  IF i = 0 THEN <<rem>>
  ELSE LET t == rem * LimbBase + x[i]
       IN <<t \div d>> \o LimbDiv(x, d, i - 1, t % d)

\* quotient q and remainder r of a by the int d
BigDivInt(a, d) ==
  LET x   == LimbsOfBits(a)
      res == Reverse(LimbDiv(x, d, Len(x), 0))
  IN [q |-> BitsOfLimbs(Tail(res)), r |-> Head(res)]

(***************************************************************************)
(* IEEE-754 doubles (normal range): value = (-1)^s * m * 2^e               *)
(***************************************************************************)
MantissaBits == 53
\* guard bits of the quotient computed before rounding a division
DivShift == 64

FZero == [s |-> 0, m |-> <<>>, e |-> 0]

\* round m * 2^e (sticky: a nonzero part below m was cut off) to nearest even
RoundToDouble(s, m0, e, sticky) ==
  LET m == BigTrim(m0) IN
  IF m = <<>> THEN FZero
  ELSE IF Len(m) <= MantissaBits
       THEN [s |-> s, m |-> BigShl(m, MantissaBits - Len(m)),
             e |-> e - (MantissaBits - Len(m))]
  ELSE LET drop  == Len(m) - MantissaBits
           keep  == SubSeq(m, drop + 1, Len(m))
           guard == m[drop]
           low   == sticky \/ \E i \in 1..(drop - 1) : m[i] = 1
           up    == guard = 1 /\ (low \/ keep[1] = 1)
           r     == IF up THEN BigAdd(keep, <<1>>) ELSE keep
       IN IF Len(r) > MantissaBits
          THEN [s |-> s, m |-> SubSeq(r, 2, Len(r)), e |-> e + drop + 1]
          ELSE [s |-> s, m |-> r, e |-> e + drop]

\* float(n) for an int n
FFromInt(n) ==
  IF n >= 0 THEN RoundToDouble(0, BitsOfNat(n), 0, FALSE)
  ELSE RoundToDouble(1, BitsOfNat(-n), 0, FALSE)

\* a / b for ints a >= 0, b > 0 (int true division is correctly rounded)
FDivInt(a, b) ==
  LET num == BigShl(BitsOfNat(a), DivShift)
      d   == BigDivInt(num, b)
  IN RoundToDouble(0, d.q, -DivShift, d.r # 0)

\* x * n for a float x and an int n >= 0
FMulInt(x, n) == RoundToDouble(x.s, BigMulInt(x.m, n), x.e, FALSE)

\* n - x for an int n >= 0 and a float x >= 0 with x.e <= 0
FIntMinus(n, x) ==
  IF x.m = <<>> THEN FFromInt(n)
  ELSE LET a == BigShl(BitsOfNat(n), -x.e)
           c == BigCmp(a, x.m)
       IN IF c = 0 THEN FZero
          ELSE IF c > 0 THEN RoundToDouble(0, BigSub(a, x.m), x.e, FALSE)
          ELSE RoundToDouble(1, BigSub(x.m, a), x.e, FALSE)

FIsZero(x) == x.m = <<>>
FIsNeg(x) == x.m # <<>> /\ x.s = 1
FIsPos(x) == x.m # <<>> /\ x.s = 0

\* the power of two in an int b > 0
TwoPowerIn(b) == CHOOSE k \in 0..30 : b % (2 ^ k) = 0 /\ (b \div (2 ^ k)) % 2 = 1

\* a / b for ints a >= 0, b > 0, b's power of two taken off the exponent of
\* the quotient by b's odd part: the same real number, rounded once
FDivIntWide(a, b) ==
  LET k == TwoPowerIn(b)
      q == FDivInt(a, b \div (2 ^ k))
  IN IF FIsZero(q) THEN q ELSE [q EXCEPT !.e = @ - k]

\* x < y for floats x, y >= 0
FLtNonNeg(x, y) ==
  IF y.m = <<>> THEN FALSE
  ELSE IF x.m = <<>> THEN TRUE
  ELSE x.e < y.e \/ (x.e = y.e /\ BigCmp(x.m, y.m) < 0)

\* x < y
FLt(x, y) ==
  IF FIsNeg(x) THEN (IF FIsNeg(y) THEN FLtNonNeg(y, x) ELSE TRUE)
  ELSE IF FIsNeg(y) THEN FALSE
  ELSE FLtNonNeg(x, y)

FLe(x, y) == ~FLt(y, x)

\* the int a bit sequence stands for
NatOfBits(a) ==
  LET F[i \in 0..Len(a)] == IF i = 0 THEN 0 ELSE 2 * F[i - 1] + a[Len(a) - i + 1]
  IN F[Len(a)]

\* round(x, 2) for a float x >= 0: the exact value of x is rounded to two
\* decimals (ties to even) and the decimal result converted to the nearest
\* double, as float.__round__ does through its decimal string
PyRound2(x) ==
  IF x.m = <<>> THEN FZero
  ELSE LET M  == BigMulInt(x.m, 100)
           k  == -x.e
           ip == IF k <= 0 THEN BigShl(M, -k)
                 ELSE IF k >= Len(M) THEN <<>> ELSE SubSeq(M, k + 1, Len(M))
           guard  == IF k >= 1 /\ k <= Len(M) THEN M[k] ELSE 0
           sticky == \E i \in 1..(k - 1) : i <= Len(M) /\ M[i] = 1
           odd    == ip # <<>> /\ ip[1] = 1
           n  == IF guard = 1 /\ (sticky \/ odd) THEN BigAdd(ip, <<1>>) ELSE ip
       IN FDivInt(NatOfBits(n), 100)

(***************************************************************************)
(* Python dict: <<key, value>> pairs in insertion order                    *)
(***************************************************************************)
DictHas(d, k) == \E i \in DOMAIN d : d[i][1] = k

DictGet(d, k) == d[CHOOSE i \in DOMAIN d : d[i][1] = k][2]

\* a deliberately wrong d[k] = v: the key is looked for in the last entry only
DictSetLastOnly(d, k, v) ==
  IF d # <<>> /\ d[Len(d)][1] = k
  THEN [d EXCEPT ![Len(d)] = <<k, v>>]
  ELSE Append(d, <<k, v>>)

\* a deliberately wrong d[k] = v: the pair is appended whether or not the key
\* is there already (a list, not a dict)
DictSetAppend(d, k, v) == Append(d, <<k, v>>)

\* a pop that leaves the key in the dict
DictKeep(d, k) == d

\* d.pop(k) for a key that is there, the dict left
DictPop(d, k) == SelectSeq(d, LAMBDA kv : kv[1] # k)

\* d[k] = v: an existing key keeps its place, a new key is appended
DictSet(d, k, v) ==
  IF DictHas(d, k)
  THEN [i \in DOMAIN d |-> IF d[i][1] = k THEN <<k, v>> ELSE d[i]]
  ELSE Append(d, <<k, v>>)

\* list(d.values())
DictValues(d) == [i \in DOMAIN d |-> d[i][2]]

DictKeys(d) == [i \in DOMAIN d |-> d[i][1]]

(***************************************************************************)
(* Dates: a datetime is <<year, month, day, second of the day>> (UTC);     *)
(* strftime and the parsing of its output work on digit characters         *)
(***************************************************************************)
Digits == <<"0", "1", "2", "3", "4", "5", "6", "7", "8", "9">>

DigitChar(n) == Digits[n + 1]

DigitValue(c) == CHOOSE n \in 0..9 : Digits[n + 1] = c

\* %Y: four digits; %m, %d: two digits
Fmt4(n) == << DigitChar((n \div 1000) % 10), DigitChar((n \div 100) % 10),
              DigitChar((n \div 10) % 10), DigitChar(n % 10) >>

Fmt2(n) == << DigitChar((n \div 10) % 10), DigitChar(n % 10) >>

Num4(s) == DigitValue(s[1]) * 1000 + DigitValue(s[2]) * 100 + DigitValue(s[3]) * 10
           + DigitValue(s[4])

Num2(s) == DigitValue(s[1]) * 10 + DigitValue(s[2])

\* dt.strftime("%Y-%m")
StrftimeYm(dt) == Fmt4(dt[1]) \o <<"-">> \o Fmt2(dt[2])

\* dt.strftime("%Y-%m-%d")
StrftimeYmd(dt) == Fmt4(dt[1]) \o <<"-">> \o Fmt2(dt[2]) \o <<"-">> \o Fmt2(dt[3])

\* the year and month a "%Y-%m" string names
ParseYm(s) == << Num4(SubSeq(s, 1, 4)), Num2(SubSeq(s, 6, 7)) >>

\* the datetime a "%Y-%m-%d" string names: midnight of that day
ParseYmd(s) == << Num4(SubSeq(s, 1, 4)), Num2(SubSeq(s, 6, 7)), Num2(SubSeq(s, 9, 10)), 0 >>

\* a <= b for datetimes
TimeLe(a, b) ==
  \/ a[1] < b[1]
  \/ a[1] = b[1] /\ a[2] < b[2]
  \/ a[1] = b[1] /\ a[2] = b[2] /\ a[3] < b[3]
  \/ a[1] = b[1] /\ a[2] = b[2] /\ a[3] = b[3] /\ a[4] <= b[4]

IsLeap(y) == (y % 4 = 0 /\ y % 100 # 0) \/ y % 400 = 0

DaysInMonth(y, m) ==
  IF m = 2 THEN (IF IsLeap(y) THEN 29 ELSE 28)
  ELSE IF m \in {4, 6, 9, 11} THEN 30 ELSE 31

\* months taken off with no borrow from the year
MinusMonthsNoBorrow(dt, n) == << dt[1], ((dt[2] - 1 - n) % 12) + 1, dt[3], dt[4] >>

\* dt - relativedelta(months=n): the month moves, the day is cut to the
\* length of the month reached
MinusMonths(dt, n) ==
  LET k == dt[1] * 12 + (dt[2] - 1) - n
      y == k \div 12
      m == (k % 12) + 1
  IN << y, m, IF dt[3] > DaysInMonth(y, m) THEN DaysInMonth(y, m) ELSE dt[3], dt[4] >>

\* the number of the day y-m-d, counted from 1970-01-01 = 0
DayNumber(y, m, d) ==
  LET yy  == IF m <= 2 THEN y - 1 ELSE y
      era == yy \div 400
      yoe == yy - era * 400
      doy == ((153 * (IF m > 2 THEN m - 3 ELSE m + 9) + 2) \div 5) + d - 1
      doe == yoe * 365 + (yoe \div 4) - (yoe \div 100) + doy
  IN era * 146097 + doe - 719468

\* the date <<year, month, day>> of day number z
DateOfDayNumber(z) ==
  LET zz  == z + 719468
      era == zz \div 146097
      doe == zz - era * 146097
      yoe == (doe - (doe \div 1460) + (doe \div 36524) - (doe \div 146096)) \div 365
      doy == doe - (365 * yoe + (yoe \div 4) - (yoe \div 100))
      mp  == (5 * doy + 2) \div 153
      d   == doy - ((153 * mp + 2) \div 5) + 1
      m   == IF mp < 10 THEN mp + 3 ELSE mp - 9
  IN << (yoe + era * 400) + (IF m <= 2 THEN 1 ELSE 0), m, d >>

SecondsPerDay == 24 * 3600

\* (b - a).total_seconds() for datetimes a, b
SecondsBetween(a, b) ==
  (DayNumber(b[1], b[2], b[3]) - DayNumber(a[1], a[2], a[3])) * SecondsPerDay + b[4] - a[4]

\* today left as it is, the day of the month kept
KeepDay(dt) == dt

\* dt.replace(day=1)
ReplaceDay1(dt) == << dt[1], dt[2], 1, dt[4] >>

(***************************************************************************)
(* The Issue Source: a snapshot of issues, queried through                 *)
(* GitLabService.get_all_issues                                            *)
(***************************************************************************)
LblQA   == <<"q", "a">>
LblReg  == <<"r", "e", "g">>
LblProd == <<"p", "r", "o", "d">>

IssueIds == 1..MaxIssues

\* the label sets an issue of a snapshot may carry
IssueLabelSets == { {}, {LblQA}, {LblQA, LblReg}, {LblProd}, {LblQA, LblProd} }

\* the creation time of the issues of an escape-report snapshot, and the
\* window that report is asked for
EscCreatedAt == <<2024, 1, 15, 0>>
EscStart == <<"2", "0", "2", "4", "-", "0", "1", "-", "0", "1">>
EscEnd == <<"2", "0", "2", "4", "-", "0", "2", "-", "0", "1">>

\* every snapshot: some of the ids exist, each with one of the label sets
Snapshots ==
  UNION { { { [id |-> i, labels |-> f[i], created_at |-> EscCreatedAt] : i \in D }
            : f \in [D -> IssueLabelSets] }
          : D \in SUBSET IssueIds }

\* the issues the server matches to a query: the `labels` filter, when the
\* query has one, keeps the issues carrying that label; created_after and
\* created_before keep the issues created on or after, on or before, the
\* given time; `milestone` keeps the issues of the milestone of that title
MatchingIssues(snap, params) ==
  { i \in snap :
      /\ DictHas(params, "labels") => DictGet(params, "labels") \in i.labels
      /\ DictHas(params, "created_after") =>
           TimeLe(ParseYmd(DictGet(params, "created_after")), i.created_at)
      /\ DictHas(params, "created_before") =>
           TimeLe(i.created_at, ParseYmd(DictGet(params, "created_before")))
      /\ DictHas(params, "state") => i.state = DictGet(params, "state")
      /\ DictHas(params, "milestone") =>
           (i.milestone.has /\ i.milestone.title = DictGet(params, "milestone")) }

\* get_all_issues(**params): the matching issues as a list, in any order;
\* an exception of the API call is logged and answered with []
GetAllIssuesResponses(snap, params) ==
  Orderings(MatchingIssues(snap, params)) \cup { <<>> }

(***************************************************************************)
(* ReportGenerator._fetch_issues_with_or_labels and                        *)
(* ReportGenerator._calculate_escape_metrics                               *)
(***************************************************************************)
\* the value of an expression whose evaluation raises ZeroDivisionError
ZeroDivisionError == [exc |-> "ZeroDivisionError"]

\* [label.strip() for label in labels_str.split(',') if label.strip()]
ParseLabels(labels_str) ==
  LET parts == Split(labels_str, ",")
  IN SelectSeq([i \in DOMAIN parts |-> Strip(parts[i])], LAMBDA l : l # <<>>)

RECURSIVE PutIssues(_, _)
\* for issue in issues: all_issues[issue.id] = issue
PutIssues(all, issues) ==
  IF issues = <<>> THEN all
  ELSE PutIssues(DictSet(all, Head(issues).id, Head(issues)), Tail(issues))

RECURSIVE FetchFold(_, _)
\* the dict _fetch_issues_with_or_labels holds after the per-label
\* responses rs, taken in order
FetchFold(all, rs) ==
  IF rs = <<>> THEN all ELSE FetchFold(PutIssues(all, Head(rs)), Tail(rs))

\* a / b for ints, a >= 0: ZeroDivisionError, or the rounded quotient
PyTrueDiv(a, b) ==
  IF b = 0 THEN ZeroDivisionError
  ELSE IF b > 0 THEN FDivInt(a, b)
  ELSE LET q == FDivInt(a, -b) IN [q EXCEPT !.s = IF q.m = <<>> THEN 0 ELSE 1]

\* (a / b) * 100 with no guard on b
PercentUnguarded(a, b) ==
  LET q == PyTrueDiv(a, b)
  IN IF q = ZeroDivisionError THEN ZeroDivisionError ELSE FMulInt(q, 100)

RECURSIVE PercentRow(_, _)
PercentRow(a, b) ==
  IF b > MaxIssues THEN <<>> ELSE <<FMulInt(PyTrueDiv(a, b), 100)>> \o PercentRow(a, b + 1)

RECURSIVE PercentRows(_)
PercentRows(a) == IF a > MaxIssues THEN <<>> ELSE <<PercentRow(a, 1)>> \o PercentRows(a + 1)

\* the doubles (a / b) * 100 of the counts a bounded snapshot can give,
\* computed once: PercentMemo[a + 1][b]
PercentMemo == PercentRows(0)

\* (a / b) * 100 for b # 0
Percent(a, b) ==
  IF a \in 0..MaxIssues /\ b \in 1..MaxIssues THEN PercentMemo[a + 1][b]
  ELSE FMulInt(PyTrueDiv(a, b), 100)

RECURSIVE Round2Row(_, _)
Round2Row(a, b) ==
  IF b > MaxIssues THEN <<>> ELSE <<PyRound2(PercentMemo[a + 1][b])>> \o Round2Row(a, b + 1)

RECURSIVE Round2Rows(_)
Round2Rows(a) == IF a > MaxIssues THEN <<>> ELSE <<Round2Row(a, 1)>> \o Round2Rows(a + 1)

\* round(x, 2) of the doubles of PercentMemo, computed once
Round2Memo == Round2Rows(0)

\* round(x, 2)
Round2(x) ==
  IF \E a \in 0..MaxIssues, b \in 1..MaxIssues : PercentMemo[a + 1][b] = x
  THEN LET ab == CHOOSE ab \in (0..MaxIssues) \X (1..MaxIssues) :
                   PercentMemo[ab[1] + 1][ab[2]] = x
       IN Round2Memo[ab[1] + 1][ab[2]]
  ELSE PyRound2(x)

\* (a / b) * 100 if b > 0 else 0
PercentOrZero(a, b) == IF b > 0 THEN Percent(a, b) ELSE FZero

\* len(total_issues_created) without the QA bugs taken off
TotalTicketsGross(total_issues_created, total_qa_bugs) == Len(total_issues_created)

\* total_tickets = len(total_issues_created) - total_qa_bugs
TotalTickets(total_issues_created, total_qa_bugs) ==
  Len(total_issues_created) - total_qa_bugs

\* created_params of _calculate_escape_metrics (lines 106-111); the scope is
\* one fixed group
CreatedParams(start_date, end_date) ==
  << <<"scope_id", "7">>, <<"scope_type", "group">>,
     <<"created_after", start_date>>, <<"created_before", end_date>> >>

\* the dict _calculate_escape_metrics returns; exc names the exception that
\* ended the call instead, if one did
EscapeMetrics(qa_issues_, prod_issues_, total_issues_created_) ==
  LET total_qa_bugs   == Len(qa_issues_)
      total_prod_bugs == Len(prod_issues_)
      total_tickets   == TotalTickets(total_issues_created_, total_qa_bugs)
      qa_escape_ratio == PercentOrZero(total_prod_bugs, total_qa_bugs)
      dev_escape_rate == PercentOrZero(total_qa_bugs, total_tickets)
      raised == qa_escape_ratio = ZeroDivisionError \/ dev_escape_rate = ZeroDivisionError
  IN [ exc             |-> IF raised THEN "ZeroDivisionError" ELSE "none",
       total_qa_bugs   |-> total_qa_bugs,
       total_prod_bugs |-> total_prod_bugs,
       total_tickets   |-> total_tickets,
       qa_escape_ratio |-> IF raised THEN FZero ELSE qa_escape_ratio,
       dev_escape_rate |-> IF raised THEN FZero ELSE dev_escape_rate ]

\* params['labels'] = label written into base_params itself, no copy taken
AliasAndSetLabel(base_params, label) ==
  [ params      |-> DictSet(base_params, "labels", label),
    base_params |-> DictSet(base_params, "labels", label) ]

\* params = base_params.copy(); params['labels'] = label (lines 96-97): the
\* dict of the query, and base_params as the two statements leave it
CopyAndSetLabel(base_params, label) ==
  [ params      |-> DictSet(base_params, "labels", label),
    base_params |-> base_params ]

NoMetrics ==
  [ exc |-> "none", total_qa_bugs |-> 0, total_prod_bugs |-> 0, total_tickets |-> 0,
    qa_escape_ratio |-> FZero, dev_escape_rate |-> FZero ]

(***************************************************************************)
(* State                                                                   *)
(***************************************************************************)
VARIABLES
  snapshot,              \* the Issue Source: the issues of the queried window
  esc_pc,                \* where _calculate_escape_metrics stands
  qa_labels,             \* its arguments: the two comma-separated label lists
  prod_labels,
  created_params,        \* its dict of window parameters
  fetch_labels,          \* _fetch_issues_with_or_labels: the parsed label list,
  fetch_i,               \*   the index of the next label to query,
  all_issues,            \*   and its dict id -> issue
  qa_issues,             \* the two fetched lists
  prod_issues,
  queries,               \* every get_all_issues call so far: phase, params, result
  metrics,               \* the dict returned
  metrics_again,         \* the dict a second run on the same responses returns
  today,                 \* datetime.now(timezone.utc) of the trend report
  trend_pc,              \* where generate_defect_trend_report stands
  months,                \* its argument
  trend_i,               \* its loop variable i
  trend_labels,          \* its six lists: labels,
  defect_escape_ratios,
  dev_escape_rates,
  total_qa_bugs_list,
  total_prod_bugs_list,
  total_tickets_list,
  trend_windows,         \* the <<created_after, created_before>> of each month
  chart_data,            \* the dict returned
  sl_pc,                 \* where suggest_labels_scoped stands
  sl_issue,              \* its arguments: the issue (title, description)
  existing_labels,       \*   and the labels the issue carries
  scoped_suggestions,    \* the dict returned
  ts_pc,                 \* where generate_time_in_status_report stands
  ts_issues,             \* the issues fetched
  label_to_stage_map,    \* its dict label -> stage
  issues_to_process,     \* the fetched issues carrying a workflow label
  ts_k,                  \* the index of the next issue to process
  time_entries,          \* one entry per closed interval
  issue_details_for_excel, \* dict iid -> created_date, durations
  ts_event_log,          \* per processed issue: the label events as returned
  stage_durations_log,   \* per processed issue: its issue_stage_durations
  ts_result,             \* the triple returned
  tr_pc,                 \* where generate_triage_to_milestone_report stands
  filter_labels,         \* its argument
  final_milestones,      \* the milestones it works on
  tr_all_issues,         \* all_issues: their issues, label-filtered
  project_cache,         \* dict project id -> name
  tr_k,                  \* the index of the next issue of the loop
  tr_event_log,          \* per issue whose events were fetched: issue, events
  detailed_lag_data,     \* the rows
  tr_result,             \* the pair returned
  milestone_queries,     \* the milestone queries sent, with their answers
  bd_pc,                 \* where generate_detailed_milestone_report stands
  bd_milestone,          \* the milestone fetched, or none
  bd_issues,             \* the issues of the milestone, as fetched
  bd_result,             \* the pair returned
  tat_pc,                \* where generate_issue_tat_trend_report stands
  tat_months,            \* its months argument
  tat_issues,            \* the closed issues fetched
  issue_data,            \* the creation time and the TAT of each dated issue
  weekly_avg_tat,        \* the weekly groups, the empty ones dropped
  tat_result,            \* the pair returned
  con_session,           \* the Flask session of each concurrent request
  con_services,          \* the GitLabService objects built, by reference
  con_dicts,             \* the all_issues dicts created, by reference
  con_req,               \* the locals of each concurrent request
  con_overlap,           \* a query was sent while the other request was under way
  epic_children,         \* the epic hierarchy of the source: the child epics of each epic
  ep_pc,                 \* where get_epic_issues stands
  ep_stack,              \* the calls of _get_descendant_epic_issues under way
  issues_list,           \* the list the calls extend
  ep_entered,            \* the epics the calls were made for, in call order
  ep_raised,             \* the exceptions caught so far, by kind
  unique_issues,         \* the list returned
  session,               \* the Flask session of the browser
  last_request,          \* the request handled last: what came in, what the route did, its answer
  connected_once,        \* a connect has succeeded
  since_logout           \* logout was called and no connect has succeeded since

escVars == << snapshot, esc_pc, qa_labels, prod_labels, created_params, fetch_labels,
              fetch_i, all_issues, qa_issues, prod_issues, queries, metrics,
              metrics_again >>

trendVars == << today, trend_pc, months, trend_i, trend_labels, defect_escape_ratios,
                dev_escape_rates, total_qa_bugs_list, total_prod_bugs_list,
                total_tickets_list, trend_windows, chart_data >>

labelVars == << sl_pc, sl_issue, existing_labels, scoped_suggestions >>

statusVars == << ts_pc, ts_issues, label_to_stage_map, issues_to_process, ts_k,
                 time_entries, issue_details_for_excel, ts_event_log,
                 stage_durations_log, ts_result >>

triageVars == << tr_pc, filter_labels, final_milestones, tr_all_issues, project_cache,
                 tr_k, tr_event_log, detailed_lag_data, tr_result,
                 milestone_queries >>

burnVars == << bd_pc, bd_milestone, bd_issues, bd_result >>

tatVars == << tat_pc, tat_months, tat_issues, issue_data, weekly_avg_tat, tat_result >>

conVars == << con_session, con_services, con_dicts, con_req, con_overlap >>

epicVars == << epic_children, ep_pc, ep_stack, issues_list, ep_entered, ep_raised,
               unique_issues >>

routeVars == << session, last_request, connected_once, since_logout >>

vars == << escVars, trendVars, labelVars, statusVars, triageVars, burnVars, tatVars,
           conVars, epicVars, routeVars >>

\* what the steps of one report leave alone: the variables of the others
EscFrame ==
  UNCHANGED << trendVars, labelVars, statusVars, triageVars, burnVars, tatVars,
               conVars, epicVars, routeVars >>
TrendFrame ==
  UNCHANGED << escVars, labelVars, statusVars, triageVars, burnVars, tatVars, conVars,
               epicVars, routeVars >>
LabelFrame ==
  UNCHANGED << escVars, trendVars, statusVars, triageVars, burnVars, tatVars, conVars,
               epicVars, routeVars >>
StatusFrame ==
  UNCHANGED << escVars, trendVars, labelVars, triageVars, burnVars, tatVars, conVars,
               epicVars, routeVars >>
TriageFrame ==
  UNCHANGED << escVars, trendVars, labelVars, statusVars, burnVars, tatVars, conVars,
               epicVars, routeVars >>
BurnFrame ==
  UNCHANGED << escVars, trendVars, labelVars, statusVars, triageVars, tatVars, conVars,
               epicVars, routeVars >>
TatFrame ==
  UNCHANGED << escVars, trendVars, labelVars, statusVars, triageVars, burnVars,
               conVars, epicVars, routeVars >>
ConFrame ==
  UNCHANGED << escVars, trendVars, labelVars, statusVars, triageVars, burnVars,
               tatVars, epicVars, routeVars >>
EpicFrame ==
  UNCHANGED << escVars, trendVars, labelVars, statusVars, triageVars, burnVars,
               tatVars, conVars, routeVars >>
RouteFrame ==
  UNCHANGED << escVars, trendVars, labelVars, statusVars, triageVars, burnVars,
               tatVars, conVars, epicVars >>

EscIdle ==
  /\ esc_pc = "idle"
  /\ qa_labels = <<>>
  /\ prod_labels = <<>>
  /\ created_params = <<>>
  /\ fetch_labels = <<>>
  /\ fetch_i = 1
  /\ all_issues = <<>>
  /\ qa_issues = <<>>
  /\ prod_issues = <<>>
  /\ queries = <<>>
  /\ metrics = NoMetrics
  /\ metrics_again = NoMetrics

NoChart ==
  [ labels |-> <<>>, defect_escape_ratios |-> <<>>, dev_escape_rates |-> <<>>,
    total_qa_bugs |-> <<>>, total_prod_bugs |-> <<>>, total_tickets |-> <<>> ]

TrendIdle ==
  /\ today = <<2024, 1, 1, 0>>
  /\ trend_pc = "idle"
  /\ months = 0
  /\ trend_i = 0
  /\ trend_labels = <<>>
  /\ defect_escape_ratios = <<>>
  /\ dev_escape_rates = <<>>
  /\ total_qa_bugs_list = <<>>
  /\ total_prod_bugs_list = <<>>
  /\ total_tickets_list = <<>>
  /\ trend_windows = <<>>
  /\ chart_data = NoChart

\* Python None where a str is expected, and a str that is there
NoStr == [is_none |-> TRUE, text |-> <<>>]
Str(t) == [is_none |-> FALSE, text |-> t]

LabelIdle ==
  /\ sl_pc = "idle"
  /\ sl_issue = [title |-> <<>>, description |-> NoStr]
  /\ existing_labels = <<>>
  /\ scoped_suggestions = <<>>

NoResult == [result |-> "none"]

StatusIdle ==
  /\ ts_pc = "idle"
  /\ ts_issues = <<>>
  /\ label_to_stage_map = <<>>
  /\ issues_to_process = <<>>
  /\ ts_k = 1
  /\ time_entries = <<>>
  /\ issue_details_for_excel = <<>>
  /\ ts_event_log = <<>>
  /\ stage_durations_log = <<>>
  /\ ts_result = NoResult

TriageIdle ==
  /\ tr_pc = "idle"
  /\ filter_labels = NoStr
  /\ final_milestones = <<>>
  /\ tr_all_issues = <<>>
  /\ project_cache = <<>>
  /\ tr_k = 1
  /\ tr_event_log = <<>>
  /\ detailed_lag_data = <<>>
  /\ tr_result = NoResult
  /\ milestone_queries = <<>>

TatIdle ==
  /\ tat_pc = "idle"
  /\ tat_months = 0
  /\ tat_issues = <<>>
  /\ issue_data = <<>>
  /\ weekly_avg_tat = <<>>
  /\ tat_result = NoResult

\* the requests that run side by side
Requests == {1, 2}

\* the other request
Other(r) == 3 - r

\* the session of each client: its GitLab URL and its access token
Sessions ==
  [r \in Requests |-> [gitlab_url |-> "https://gitlab.example", access_token |-> r]]

NoService == [gitlab_url |-> "", private_token |-> 0]

\* the references of the all_issues dicts: the request and the fetch that
\* created the dict
DictRefs == Requests \X {"qa", "prod"}

NoRequest ==
  [ pc |-> "idle", gl_service |-> 0, created_params |-> <<>>, fetch_labels |-> <<>>,
    fetch_i |-> 1, all_issues |-> <<0, "">>, qa_issues |-> <<>>, prod_issues |-> <<>>,
    sent_with |-> {}, metrics |-> NoMetrics ]

ConIdle ==
  /\ con_session = Sessions
  /\ con_services = [r \in Requests |-> NoService]
  /\ con_dicts = [ref \in DictRefs |-> <<>>]
  /\ con_req = [r \in Requests |-> NoRequest]
  /\ con_overlap = FALSE

EpicIdle ==
  /\ epic_children = <<>>
  /\ ep_pc = "idle"
  /\ ep_stack = <<>>
  /\ issues_list = <<>>
  /\ ep_entered = <<>>
  /\ ep_raised = {}
  /\ unique_issues = <<>>

RouteIdle ==
  /\ session = [is_connected |-> FALSE, gitlab_url |-> "", access_token |-> 0]
  /\ last_request = [route |-> "", report_type |-> "", complete |-> FALSE,
                     connected |-> FALSE, built |-> FALSE,
                     gl_service |-> [gitlab_url |-> "", private_token |-> 0],
                     source |-> "none", reached |-> {}, answer |-> ""]
  /\ connected_once = FALSE
  /\ since_logout = FALSE

NoMilestoneFetched == [found |-> FALSE, title |-> "", start_date |-> NoStr, due_date |-> NoStr]

BurnIdle ==
  /\ bd_pc = "idle"
  /\ bd_milestone = NoMilestoneFetched
  /\ bd_issues = <<>>
  /\ bd_result = NoResult

(***************************************************************************)
(* _calculate_escape_metrics, one step per Issue Source query              *)
(***************************************************************************)
\* the label lists a caller passes
QaLabelInputs ==
  { <<"q", "a">>,
    <<"q", "a", ",", " ", "r", "e", "g">>,
    <<" ", ",">> }

ProdLabelInputs ==
  { <<"p", "r", "o", "d">>,
    <<"p", "r", "o", "d", ",", "q", "a", " ">> }

\* the call: created_params is built and the QA fetch starts (lines 106-113)
CalculateEscapeMetricsCall ==
  /\ esc_pc = "idle"
  /\ \E q \in QaLabelInputs, pr \in ProdLabelInputs :
       /\ qa_labels' = q
       /\ prod_labels' = pr
       /\ fetch_labels' = ParseLabels(q)
  /\ created_params' = CreatedParams(EscStart, EscEnd)
  /\ fetch_i' = 1
  /\ all_issues' = <<>>
  /\ esc_pc' = "qa"
  /\ EscFrame
  /\ UNCHANGED << snapshot, qa_issues, prod_issues, queries, metrics, metrics_again >>

\* one turn of the loop over the labels (lines 95-100): the query of one label
FetchLabelQuery ==
  /\ esc_pc \in {"qa", "prod"}
  /\ fetch_i <= Len(fetch_labels)
  /\ LET set == CopyAndSetLabel(created_params, fetch_labels[fetch_i])
     IN /\ \E issues \in GetAllIssuesResponses(snapshot, set.params) :
             /\ all_issues' = PutIssues(all_issues, issues)
             /\ queries' = Append(queries, [phase |-> esc_pc, params |-> set.params,
                                            result |-> issues])
        /\ created_params' = set.base_params
  /\ fetch_i' = fetch_i + 1
  /\ EscFrame
  /\ UNCHANGED << snapshot, esc_pc, qa_labels, prod_labels,
                  fetch_labels, qa_issues, prod_issues, metrics, metrics_again >>

\* the QA fetch returns list(all_issues.values()) and the production fetch starts
FetchQaReturn ==
  /\ esc_pc = "qa"
  /\ fetch_i > Len(fetch_labels)
  /\ qa_issues' = DictValues(all_issues)
  /\ fetch_labels' = ParseLabels(prod_labels)
  /\ fetch_i' = 1
  /\ all_issues' = <<>>
  /\ esc_pc' = "prod"
  /\ EscFrame
  /\ UNCHANGED << snapshot, qa_labels, prod_labels, created_params, prod_issues,
                  queries, metrics, metrics_again >>

\* the production fetch returns
FetchProdReturn ==
  /\ esc_pc = "prod"
  /\ fetch_i > Len(fetch_labels)
  /\ prod_issues' = DictValues(all_issues)
  /\ esc_pc' = "total"
  /\ EscFrame
  /\ UNCHANGED << snapshot, qa_labels, prod_labels, created_params, fetch_labels,
                  fetch_i, all_issues, qa_issues, queries, metrics, metrics_again >>

\* the unfiltered query and the arithmetic (lines 115-130)
TotalQueryAndReturn ==
  /\ esc_pc = "total"
  /\ \E issues \in GetAllIssuesResponses(snapshot, created_params) :
       /\ queries' = Append(queries, [phase |-> "total", params |-> created_params,
                                      result |-> issues])
       /\ metrics' = EscapeMetrics(qa_issues, prod_issues, issues)
  /\ esc_pc' = "done"
  /\ EscFrame
  /\ UNCHANGED << snapshot, qa_labels, prod_labels, created_params, fetch_labels,
                  fetch_i, all_issues, qa_issues, prod_issues, metrics_again >>

\* the results of the logged queries of one phase, in call order
PhaseResults(phase) ==
  LET qs == SelectSeq(queries, LAMBDA q : q.phase = phase)
  IN [i \in DOMAIN qs |-> qs[i].result]

\* the issues of a response in ascending id order
ByIdOrder(r) ==
  LET S == Range(r)
  IN [k \in 1..Cardinality(S) |->
        CHOOSE x \in S : Cardinality({ y \in S : y.id < x.id }) = k - 1]

\* a second call with the same arguments on the unchanged snapshot: every
\* query is answered with the same issues as in the first call, this time in
\* ascending id order, whatever the order of the first answer was.  Two calls
\* that are answered with the same issues in any two orders both agree with
\* this one.
CalculateEscapeMetricsAgain ==
  /\ esc_pc = "done"
  /\ LET qa  == PhaseResults("qa")
         pr  == PhaseResults("prod")
         tot == PhaseResults("total")
     IN metrics_again' =
          EscapeMetrics(
            DictValues(FetchFold(<<>>, [i \in DOMAIN qa |-> ByIdOrder(qa[i])])),
            DictValues(FetchFold(<<>>, [i \in DOMAIN pr |-> ByIdOrder(pr[i])])),
            ByIdOrder(tot[1]))
  /\ esc_pc' = "done_again"
  /\ EscFrame
  /\ UNCHANGED << snapshot, qa_labels, prod_labels, created_params, fetch_labels,
                  fetch_i, all_issues, qa_issues, prod_issues, queries, metrics >>

InitEscape ==
  /\ snapshot \in Snapshots
  /\ EscIdle
  /\ TrendIdle
  /\ LabelIdle
  /\ StatusIdle
  /\ TriageIdle
  /\ BurnIdle
  /\ TatIdle
  /\ ConIdle
  /\ EpicIdle
  /\ RouteIdle

NextEscape ==
  \/ CalculateEscapeMetricsCall
  \/ FetchLabelQuery
  \/ FetchQaReturn
  \/ FetchProdReturn
  \/ TotalQueryAndReturn
  \/ CalculateEscapeMetricsAgain

SpecEscape == InitEscape /\ [][NextEscape]_vars

(***************************************************************************)
(* Escape metrics: what the claims speak of, read off the logged queries   *)
(***************************************************************************)
EscReturned == esc_pc \in {"done", "done_again"}

\* the ids of the issues that the queries of a phase returned
FetchedIds(phase) ==
  UNION { { x.id : x \in Range(queries[i].result) } :
          i \in { j \in DOMAIN queries : queries[j].phase = phase } }

QaCount == Cardinality(FetchedIds("qa"))
ProdCount == Cardinality(FetchedIds("prod"))
TotalCreated == Cardinality(FetchedIds("total"))

\* C1: _calculate_escape_metrics never divides by zero: it returns without
\* ZeroDivisionError for every combination of fetched counts, its
\* qa_escape_ratio is 0 whenever the QA count is 0, and its dev_escape_rate is
\* 0 whenever total created minus QA count is zero or negative (also when
\* the unfiltered fetch returned fewer issues than the QA fetch).
C1_NoDivisionByZero ==
  EscReturned =>
    /\ metrics.exc = "none"
    /\ QaCount = 0 => FIsZero(metrics.qa_escape_ratio)
    /\ TotalCreated - QaCount <= 0 => FIsZero(metrics.dev_escape_rate)

\* C1 witness: a call returned after the unfiltered fetch gave fewer issues
\* than the QA fetch
C1_Witness == esc_pc = "done" /\ QaCount > 0 /\ TotalCreated < QaCount

\* C2: total_tickets = totalCreated - qaCount, qa_escape_ratio =
\* prodCount / qaCount * 100 when qaCount > 0, dev_escape_rate =
\* qaCount / total_tickets * 100 when total_tickets > 0, the three counts being
\* the sizes of the three fetched collections.
C2_MetricsFormulas ==
  EscReturned =>
    /\ metrics.total_qa_bugs = QaCount
    /\ metrics.total_prod_bugs = ProdCount
    /\ metrics.total_tickets = TotalCreated - QaCount
    /\ QaCount > 0 =>
         metrics.qa_escape_ratio = Percent(ProdCount, QaCount)
    /\ TotalCreated - QaCount > 0 =>
         metrics.dev_escape_rate = Percent(QaCount, TotalCreated - QaCount)

\* C2 witness: a call returned with QA bugs, production bugs and a positive
\* net total
C2_Witness ==
  esc_pc = "done" /\ QaCount > 0 /\ ProdCount > 0 /\ TotalCreated - QaCount > 0

\* C24: the escape ratio is a proportion of the QA-flagged defects: its
\* numerator counts only issues of the QA-flagged set that also carry a
\* production-defect label, so for every snapshot with qaCount > 0 the
\* reported qa_escape_ratio lies between 0 and 100.
C24_RatioIsProportion ==
  (EscReturned /\ QaCount > 0) =>
    /\ metrics.total_prod_bugs = Cardinality(FetchedIds("qa") \cap FetchedIds("prod"))
    /\ FLe(FZero, metrics.qa_escape_ratio)
    /\ FLe(metrics.qa_escape_ratio, FFromInt(100))

\* one QA-flagged issue and two issues with a production label, one of them
\* not QA-flagged: a ratio of 200
C24_RatioOfTwoHundred ==
  /\ esc_pc = "done"
  /\ QaCount = 1 /\ ProdCount = 2
  /\ Cardinality(FetchedIds("qa") \cap FetchedIds("prod")) = 1
  /\ metrics.qa_escape_ratio = FFromInt(200)

\* the ids of a list of issues, each id once
DistinctIds(issues) ==
  \A i, j \in DOMAIN issues : i # j => issues[i].id # issues[j].id

\* C3: _fetch_issues_with_or_labels returns the union of the per-label query
\* results deduplicated by issue id: an issue is in the returned list iff some
\* per-label query returned it, and it is there (and counted) exactly once.
C3_UnionDedupById ==
  /\ esc_pc \in {"prod", "total", "done", "done_again"} =>
       /\ { x.id : x \in Range(qa_issues) } = FetchedIds("qa")
       /\ DistinctIds(qa_issues)
  /\ esc_pc \in {"total", "done", "done_again"} =>
       /\ { x.id : x \in Range(prod_issues) } = FetchedIds("prod")
       /\ DistinctIds(prod_issues)
  /\ EscReturned =>
       /\ metrics.total_qa_bugs = Cardinality(FetchedIds("qa"))
       /\ metrics.total_prod_bugs = Cardinality(FetchedIds("prod"))

\* C3 witness: two per-label queries of the QA list both returned the same
\* issue, and a second issue came back from only one of them
C3_Witness ==
  /\ esc_pc = "done"
  /\ \E i, j \in DOMAIN queries :
       /\ i < j
       /\ queries[i].phase = "qa" /\ queries[j].phase = "qa"
       /\ \E x \in Range(queries[i].result) : x \in Range(queries[j].result)
       /\ \E x \in Range(queries[i].result) : x \notin Range(queries[j].result)

\* C10: two runs with the same arguments on an unchanged snapshot return the
\* same five metrics, whatever order the source answers each query in.
C10_Deterministic == esc_pc = "done_again" => metrics_again = metrics

\* C10 witness: both runs returned, an issue came back from two queries, and
\* the first run was answered in another order than the second
C10_Witness ==
  /\ esc_pc = "done_again"
  /\ \E i \in DOMAIN queries :
       /\ Len(queries[i].result) >= 2
       /\ queries[i].result # ByIdOrder(queries[i].result)
  /\ \E i, j \in DOMAIN queries :
       /\ i < j /\ queries[i].phase = queries[j].phase
       /\ Range(queries[i].result) \cap Range(queries[j].result) # {}

\* a logged query that was answered with [] although issues of the snapshot
\* match it: the API call raised and get_all_issues answered [] (services.py
\* 281-283)
FailedQueries ==
  { i \in DOMAIN queries :
      queries[i].result = <<>> /\ MatchingIssues(snapshot, queries[i].params) # {} }

\* C12: an upstream failure of the Issue Source during a report is surfaced
\* as the generic internal-error outcome, never folded into a normal result
\* as if the query had matched zero issues: a call of
\* _calculate_escape_metrics that returns metrics had no failed query.
C12_UpstreamFailureSurfaced == EscReturned => FailedQueries = {}

\* the failed total query of a snapshot with issues, counted as zero created
C12_FailureFoldedIntoResult ==
  /\ esc_pc = "done"
  /\ \E i \in FailedQueries : queries[i].phase = "total"
  /\ metrics.exc = "none" /\ metrics.total_tickets <= 0

\* C16: the totalCreated query of _calculate_escape_metrics carries no label
\* filter: the per-label fetches leave created_params unchanged, and the third
\* query is issued with exactly scope_id, scope_type, created_after and
\* created_before, for any label lists.
C16_TotalQueryUnfiltered ==
  /\ esc_pc # "idle" => created_params = CreatedParams(EscStart, EscEnd)
  /\ \A i \in DOMAIN queries :
       queries[i].phase = "total" =>
         /\ queries[i].params = CreatedParams(EscStart, EscEnd)
         /\ ~DictHas(queries[i].params, "labels")
         /\ Range(DictKeys(queries[i].params)) =
              {"scope_id", "scope_type", "created_after", "created_before"}

\* C16 witness: the total query was issued after label queries for two QA
\* labels and two production labels
C16_Witness ==
  /\ esc_pc = "done"
  /\ Cardinality({ i \in DOMAIN queries : queries[i].phase = "qa" }) = 2
  /\ Cardinality({ i \in DOMAIN queries : queries[i].phase = "prod" }) = 2
  /\ \E i \in DOMAIN queries : queries[i].phase = "total"
  /\ \A i \in DOMAIN queries :
       queries[i].phase # "total" => DictHas(queries[i].params, "labels")

(***************************************************************************)
(* generate_defect_trend_report                                            *)
(***************************************************************************)
\* the one-label responses of _fetch_issues_with_or_labels, label by label
RECURSIVE LabelResponses(_, _, _)
LabelResponses(snap, labels, base_params) ==
  IF labels = <<>> THEN { <<>> }
  ELSE { <<r>> \o rest :
           r \in GetAllIssuesResponses(snap, DictSet(base_params, "labels", Head(labels))),
           rest \in LabelResponses(snap, Tail(labels), base_params) }

\* every dict a whole call of _calculate_escape_metrics may return
CalculateEscapeMetrics(snap, start_date, end_date, qa, prod) ==
  LET params == CreatedParams(start_date, end_date)
  IN { EscapeMetrics(DictValues(FetchFold(<<>>, qr)), DictValues(FetchFold(<<>>, pr)), tot) :
         qr \in LabelResponses(snap, ParseLabels(qa), params),
         pr \in LabelResponses(snap, ParseLabels(prod), params),
         tot \in GetAllIssuesResponses(snap, params) }

\* the clock readings the report is run at
TodayChoices ==
  { <<2024, 3, 15, 43200>>, <<2024, 1, 31, 0>>, <<2025, 1, 1, 1>>, <<2024, 12, 1, 86399>> }

\* what an issue of a trend snapshot may be: labels and creation time
TrendIssueKinds ==
  { [labels |-> {LblQA},          created_at |-> <<2024, 1, 1, 0>>],
    [labels |-> {LblQA, LblProd}, created_at |-> <<2024, 1, 20, 3600>>],
    [labels |-> {},               created_at |-> <<2024, 2, 1, 1>>],
    [labels |-> {LblQA},          created_at |-> <<2023, 12, 31, 86399>>] }

TrendSnapshots ==
  UNION { { { [id |-> i, labels |-> f[i].labels, created_at |-> f[i].created_at] : i \in D }
            : f \in [D -> TrendIssueKinds] }
          : D \in SUBSET IssueIds }

\* the label lists the trend report is asked with
TrendQaLabels == <<"q", "a">>
TrendProdLabels == <<"p", "r", "o", "d", ",", "r", "e", "g">>

\* current_month_start = today.replace(day=1)
CurrentMonthStart == ReplaceDay1(today)

\* the call, up to the loop (lines 166-178): i starts at int(months)
DefectTrendCall ==
  /\ trend_pc = "idle"
  /\ \E n \in 0..MaxMonths :
       /\ months' = n
       /\ trend_i' = n
  /\ trend_labels' = <<>>
  /\ defect_escape_ratios' = <<>>
  /\ dev_escape_rates' = <<>>
  /\ total_qa_bugs_list' = <<>>
  /\ total_prod_bugs_list' = <<>>
  /\ total_tickets_list' = <<>>
  /\ trend_pc' = "loop"
  /\ TrendFrame
  /\ UNCHANGED << today, trend_windows, chart_data >>

\* one turn of the loop (lines 178-196): the window of month i, its label
\* and its metrics
DefectTrendMonth ==
  /\ trend_pc = "loop"
  /\ trend_i >= 1
  /\ LET end_of_month   == MinusMonths(CurrentMonthStart, trend_i - 1)
         start_of_month == MinusMonths(CurrentMonthStart, trend_i)
         start_date     == StrftimeYmd(start_of_month)
         end_date       == StrftimeYmd(end_of_month)
     IN /\ trend_labels' = Append(trend_labels, StrftimeYm(start_of_month))
        /\ trend_windows' = Append(trend_windows, <<start_date, end_date>>)
        /\ \E m \in CalculateEscapeMetrics(snapshot, start_date, end_date,
                                          TrendQaLabels, TrendProdLabels) :
             /\ defect_escape_ratios' = Append(defect_escape_ratios, Round2(m.qa_escape_ratio))
             /\ dev_escape_rates' = Append(dev_escape_rates, Round2(m.dev_escape_rate))
             /\ total_qa_bugs_list' = Append(total_qa_bugs_list, m.total_qa_bugs)
             /\ total_prod_bugs_list' = Append(total_prod_bugs_list, m.total_prod_bugs)
             /\ total_tickets_list' = Append(total_tickets_list, m.total_tickets)
  /\ trend_i' = trend_i - 1
  /\ TrendFrame
  /\ UNCHANGED << today, trend_pc, months, chart_data >>

\* the loop is over: chart_data is built and returned with no error (lines 198-206)
DefectTrendReturn ==
  /\ trend_pc = "loop"
  /\ trend_i < 1
  /\ chart_data' = [ labels               |-> trend_labels,
                     defect_escape_ratios |-> defect_escape_ratios,
                     dev_escape_rates     |-> dev_escape_rates,
                     total_qa_bugs        |-> total_qa_bugs_list,
                     total_prod_bugs      |-> total_prod_bugs_list,
                     total_tickets        |-> total_tickets_list ]
  /\ trend_pc' = "done"
  /\ TrendFrame
  /\ UNCHANGED << today, months, trend_i, trend_labels, defect_escape_ratios,
                  dev_escape_rates, total_qa_bugs_list, total_prod_bugs_list,
                  total_tickets_list, trend_windows >>

InitTrend ==
  /\ snapshot \in TrendSnapshots
  /\ EscIdle
  /\ today \in TodayChoices
  /\ trend_pc = "idle"
  /\ months = 0
  /\ trend_i = 0
  /\ trend_labels = <<>>
  /\ defect_escape_ratios = <<>>
  /\ dev_escape_rates = <<>>
  /\ total_qa_bugs_list = <<>>
  /\ total_prod_bugs_list = <<>>
  /\ total_tickets_list = <<>>
  /\ trend_windows = <<>>
  /\ chart_data = NoChart
  /\ LabelIdle
  /\ StatusIdle
  /\ TriageIdle
  /\ BurnIdle
  /\ TatIdle
  /\ ConIdle
  /\ EpicIdle
  /\ RouteIdle

NextTrend ==
  \/ DefectTrendCall
  \/ DefectTrendMonth
  \/ DefectTrendReturn

SpecTrend == InitTrend /\ [][NextTrend]_vars

\* the month after the year and month ym
NextYm(ym) == IF ym[2] = 12 THEN << ym[1] + 1, 1 >> ELSE << ym[1], ym[2] + 1 >>

\* C4: called with N months, generate_defect_trend_report returns exactly N
\* points in every series, oldest first, its YYYY-MM labels going up by one
\* calendar month from point to point.
C4_TrendLength ==
  trend_pc = "done" =>
    /\ Len(chart_data.labels) = months
    /\ Len(chart_data.defect_escape_ratios) = months
    /\ Len(chart_data.dev_escape_rates) = months
    /\ Len(chart_data.total_qa_bugs) = months
    /\ Len(chart_data.total_prod_bugs) = months
    /\ Len(chart_data.total_tickets) = months
    /\ \A k \in 1..(months - 1) :
         ParseYm(chart_data.labels[k + 1]) = NextYm(ParseYm(chart_data.labels[k]))

\* C4 witness: a report of at least three months whose labels cross a year end
C4_Witness ==
  /\ trend_pc = "done"
  /\ months >= 3
  /\ ParseYm(chart_data.labels[1])[1] < ParseYm(chart_data.labels[months])[1]

(***************************************************************************)
(* AutomationLogic.suggest_labels_scoped                                   *)
(***************************************************************************)
TypeBugKeywords ==
  << <<"b", "u", "g">>,
     <<"e", "r", "r", "o", "r">>,
     <<"f", "i", "x">>,
     <<"i", "s", "s", "u", "e">>,
     <<"p", "r", "o", "b", "l", "e", "m">>,
     <<"f", "a", "i", "l", "u", "r", "e">> >>
TypeFeatureKeywords ==
  << <<"f", "e", "a", "t", "u", "r", "e">>,
     <<"i", "m", "p", "l", "e", "m", "e", "n", "t">>,
     <<"a", "d", "d", " ", "n", "e", "w">>,
     <<"c", "r", "e", "a", "t", "e">> >>
TypeEnhancementKeywords ==
  << <<"e", "n", "h", "a", "n", "c", "e">>,
     <<"i", "m", "p", "r", "o", "v", "e">>,
     <<"u", "p", "d", "a", "t", "e">>,
     <<"r", "e", "f", "i", "n", "e">> >>
WorkflowBlockedKeywords ==
  << <<"b", "l", "o", "c", "k", "e", "d">>,
     <<"w", "a", "i", "t", "i", "n", "g", " ", "f", "o", "r">> >>
WorkflowReviewKeywords ==
  << <<"r", "e", "v", "i", "e", "w">> >>
WorkflowQaKeywords ==
  << <<"q", "a">>,
     <<"t", "e", "s", "t">> >>
PriorityOneKeywords ==
  << <<"c", "r", "i", "t", "i", "c", "a", "l">>,
     <<"u", "r", "g", "e", "n", "t">>,
     <<"b", "l", "o", "c", "k", "e", "r">>,
     <<"a", "s", "a", "p">> >>
PriorityThreeKeywords ==
  << <<"l", "o", "w", " ", "p", "r", "i", "o", "r", "i", "t", "y">>,
     <<"c", "o", "s", "m", "e", "t", "i", "c">> >>

TypePrefix     == <<"t", "y", "p", "e", ":", ":">>
WorkflowPrefix == <<"w", "o", "r", "k", "f", "l", "o", "w", ":", ":">>
PriorityPrefix == <<"p", "r", "i", "o", "r", "i", "t", "y", ":", ":">>

TypeBug           == TypePrefix \o <<"b", "u", "g">>
TypeNewFeature    == TypePrefix \o <<"n", "e", "w", "-", "f", "e", "a", "t", "u", "r", "e">>
TypeEnhancement   == TypePrefix \o <<"e", "n", "h", "a", "n", "c", "e", "m", "e", "n", "t">>
TypeCategorisation == TypePrefix \o <<"c", "a", "t", "e", "g", "o", "r", "i", "s", "a", "t", "i", "o", "n">>
WorkflowBlocked   == WorkflowPrefix \o <<"b", "l", "o", "c", "k", "e", "d">>
WorkflowReview    == WorkflowPrefix \o <<"r", "e", "v", "i", "e", "w">>
WorkflowQa        == WorkflowPrefix \o <<"q", "a">>
WorkflowTriage    == WorkflowPrefix \o <<"t", "r", "i", "a", "g", "e">>
PriorityOne       == PriorityPrefix \o <<"1">>
PriorityTwo       == PriorityPrefix \o <<"2">>
PriorityThree     == PriorityPrefix \o <<"3">>

\* f"{issue.title.lower()} {issue.description.lower() if issue.description else ''}"
Content(issue) ==
  Lower(issue.title) \o <<" ">> \o
    (IF ~issue.description.is_none /\ issue.description.text # <<>>
     THEN Lower(issue.description.text) ELSE <<>>)

\* any(kw in content for kw in kws)
AnyKeyword(content, kws) == \E i \in DOMAIN kws : Contains(content, kws[i])

\* a deliberately wrong scope test: the prefix anywhere in a label
HasScopeAnywhere(labels, prefix) == \E i \in DOMAIN labels : Contains(labels[i], prefix)

\* any(l.startswith(prefix) for l in existing_labels)
HasScope(labels, prefix) == \E i \in DOMAIN labels : StartsWith(labels[i], prefix)

\* a deliberately wrong order of the type rules: new-feature before bug
SuggestTypeFeatureFirst(content) ==
  IF AnyKeyword(content, TypeFeatureKeywords) THEN TypeNewFeature
  ELSE IF AnyKeyword(content, TypeBugKeywords) THEN TypeBug
  ELSE IF AnyKeyword(content, TypeEnhancementKeywords) THEN TypeEnhancement
  ELSE TypeCategorisation

\* the if / elif chain of the type scope
SuggestType(content) ==
  IF AnyKeyword(content, TypeBugKeywords) THEN TypeBug
  ELSE IF AnyKeyword(content, TypeFeatureKeywords) THEN TypeNewFeature
  ELSE IF AnyKeyword(content, TypeEnhancementKeywords) THEN TypeEnhancement
  ELSE TypeCategorisation

\* the if / elif chain of the workflow scope
SuggestWorkflow(content) ==
  IF AnyKeyword(content, WorkflowBlockedKeywords) THEN WorkflowBlocked
  ELSE IF AnyKeyword(content, WorkflowReviewKeywords) THEN WorkflowReview
  ELSE IF AnyKeyword(content, WorkflowQaKeywords) THEN WorkflowQa
  ELSE WorkflowTriage

\* the if / elif chain of the priority scope
SuggestPriority(content) ==
  IF AnyKeyword(content, PriorityOneKeywords) THEN PriorityOne
  ELSE IF AnyKeyword(content, PriorityThreeKeywords) THEN PriorityThree
  ELSE PriorityTwo

\* suggest_labels_scoped(issue, existing_labels): the dict it returns
SuggestLabelsScoped(issue, labels) ==
  LET content == Content(issue)
      s1 == IF ~HasScope(labels, TypePrefix)
            THEN DictSet(<<>>, "type", SuggestType(content)) ELSE <<>>
      s2 == IF ~HasScope(labels, WorkflowPrefix)
            THEN DictSet(s1, "workflow", SuggestWorkflow(content)) ELSE s1
      s3 == IF ~HasScope(labels, PriorityPrefix)
            THEN DictSet(s2, "priority", SuggestPriority(content)) ELSE s2
  IN s3

\* the issues the classifier is run on
TitleChoices ==
  { <<"F", "i", "x", " ", "l", "o", "g", "i", "n", " ", "b", "u", "g">>,
    <<"I", "m", "p", "l", "e", "m", "e", "n", "t", " ", "f", "e", "a", "t", "u", "r", "e", " ", "t", "o", " ", "f", "i", "x", " ", "e", "r", "r", "o", "r">>,
    <<"A", "d", "d", " ", "n", "e", "w", " ", "r", "e", "p", "o", "r", "t">>,
    <<"I", "m", "p", "r", "o", "v", "e", " ", "d", "o", "c", "s">>,
    <<"U", "p", "d", "a", "t", "e", " ", "f", "e", "a", "t", "u", "r", "e">>,
    <<"R", "e", "f", "a", "c", "t", "o", "r">>,
    <<"U", "R", "G", "E", "N", "T", " ", "b", "l", "o", "c", "k", "e", "r", " ", "w", "a", "i", "t", "i", "n", "g", " ", "f", "o", "r", " ", "r", "e", "v", "i", "e", "w">>,
    <<"R", "e", "v", "i", "e", "w", " ", "Q", "A", " ", "t", "e", "s", "t">>,
    <<"L", "o", "w", " ", "p", "r", "i", "o", "r", "i", "t", "y", " ", "c", "o", "s", "m", "e", "t", "i", "c", " ", "a", "s", "a", "p">>,
    <<"C", "o", "s", "m", "e", "t", "i", "c", " ", "t", "w", "e", "a", "k">>,
    <<"T", "e", "s", "t", " ", "i", "t">> }

DescriptionChoices ==
  { NoStr,
    Str(<<>>),
    Str(<<"c", "r", "i", "t", "i", "c", "a", "l", " ", "f", "a", "i", "l", "u", "r", "e">>),
    Str(<<"B", "l", "o", "c", "k", "e", "d", ",", " ", "l", "o", "w", " ", "p", "r", "i", "o", "r", "i", "t", "y">>) }

\* the labels an issue may carry, in this order
LabelChoices ==
  << <<"t", "y", "p", "e", ":", ":", "b", "u", "g">>,
     <<"w", "o", "r", "k", "f", "l", "o", "w", ":", ":", "q", "a">>,
     <<"p", "r", "i", "o", "r", "i", "t", "y", ":", ":", "1">>,
     <<"b", "u", "g">>,
     <<"x", "t", "y", "p", "e", ":", ":", "a">> >>

\* the sublists of a list, the order kept
SubLists(s) ==
  { SelectSeq(s, LAMBDA x : x \in keep) : keep \in SUBSET Range(s) }

SuggestLabelsScopedCall ==
  /\ sl_pc = "idle"
  /\ scoped_suggestions' = SuggestLabelsScoped(sl_issue, existing_labels)
  /\ sl_pc' = "done"
  /\ UNCHANGED << sl_issue, existing_labels >>
  /\ LabelFrame

InitLabels ==
  /\ snapshot = {}
  /\ EscIdle
  /\ TrendIdle
  /\ sl_pc = "idle"
  /\ \E t \in TitleChoices, d \in DescriptionChoices :
       sl_issue = [title |-> t, description |-> d]
  /\ existing_labels \in SubLists(LabelChoices)
  /\ scoped_suggestions = <<>>
  /\ StatusIdle
  /\ TriageIdle
  /\ BurnIdle
  /\ TatIdle
  /\ ConIdle
  /\ EpicIdle
  /\ RouteIdle

NextLabels == SuggestLabelsScopedCall

SpecLabels == InitLabels /\ [][NextLabels]_vars

\* the scopes and the prefix a label of each scope starts with
Scopes == {"type", "workflow", "priority"}
ScopePrefix(scope) ==
  CASE scope = "type" -> TypePrefix
    [] scope = "workflow" -> WorkflowPrefix
    [] scope = "priority" -> PriorityPrefix

\* no existing label of the issue starts with the scope's prefix
ScopeMissing(scope) ==
  \A i \in DOMAIN existing_labels :
    \/ Len(existing_labels[i]) < Len(ScopePrefix(scope))
    \/ SubSeq(existing_labels[i], 1, Len(ScopePrefix(scope))) # ScopePrefix(scope)

SuggestedScopes == { scoped_suggestions[i][1] : i \in DOMAIN scoped_suggestions }

\* C8: suggest_labels_scoped emits exactly one suggestion, a label of that
\* scope, for each of the scopes type, workflow and priority that no existing
\* label starts with, and none for a scope an existing label represents: the
\* keys of the result are exactly the missing scopes.
C8_KeysAreMissingScopes ==
  sl_pc = "done" =>
    /\ SuggestedScopes = { scope \in Scopes : ScopeMissing(scope) }
    /\ Len(scoped_suggestions) = Cardinality(SuggestedScopes)
    /\ \A i \in DOMAIN scoped_suggestions :
         SubSeq(scoped_suggestions[i][2], 1, Len(ScopePrefix(scoped_suggestions[i][1])))
           = ScopePrefix(scoped_suggestions[i][1])

\* C8 witness: an issue carrying priority::1, and xtype::a which only
\* contains a scope prefix, gets a type and a workflow suggestion and no
\* priority suggestion
C8_Witness ==
  /\ sl_pc = "done"
  /\ existing_labels = << PriorityOne, <<"x", "t", "y", "p", "e", ":", ":", "a">> >>
  /\ SuggestedScopes = {"type", "workflow"}

\* the label of the first rule (a pair of keyword list and label) with a
\* keyword in the content, the default when no rule has one
FirstMatch(rules, default) ==
  LET c == Content(sl_issue)
      hits == { i \in DOMAIN rules : \E k \in DOMAIN rules[i][1] : Contains(c, rules[i][1][k]) }
  IN IF hits = {} THEN default
     ELSE rules[CHOOSE i \in hits : \A h \in hits : i <= h][2]

\* C9: within each scope the keyword rules are applied in a fixed order and
\* the first matching rule wins: type is bug, else new-feature, else
\* enhancement, else categorisation; workflow is blocked, else review, else
\* qa, else triage; priority is 1, else 3, else 2. The title "Fix login bug"
\* with no scoped labels yields type::bug, workflow::triage and priority::2.
C9_FirstMatchWins ==
  sl_pc = "done" =>
    /\ DictHas(scoped_suggestions, "type") =>
         DictGet(scoped_suggestions, "type") =
           FirstMatch(<< <<TypeBugKeywords, TypeBug>>,
                         <<TypeFeatureKeywords, TypeNewFeature>>,
                         <<TypeEnhancementKeywords, TypeEnhancement>> >>, TypeCategorisation)
    /\ DictHas(scoped_suggestions, "workflow") =>
         DictGet(scoped_suggestions, "workflow") =
           FirstMatch(<< <<WorkflowBlockedKeywords, WorkflowBlocked>>,
                         <<WorkflowReviewKeywords, WorkflowReview>>,
                         <<WorkflowQaKeywords, WorkflowQa>> >>, WorkflowTriage)
    /\ DictHas(scoped_suggestions, "priority") =>
         DictGet(scoped_suggestions, "priority") =
           FirstMatch(<< <<PriorityOneKeywords, PriorityOne>>,
                         <<PriorityThreeKeywords, PriorityThree>> >>, PriorityTwo)
    /\ ( /\ sl_issue.title = <<"F", "i", "x", " ", "l", "o", "g", "i", "n", " ", "b", "u", "g">>
         /\ sl_issue.description = NoStr
         /\ ~\E i \in DOMAIN existing_labels :
               \E scope \in Scopes : StartsWith(existing_labels[i], ScopePrefix(scope)) )
       => scoped_suggestions = << <<"type", TypeBug>>, <<"workflow", WorkflowTriage>>,
                                  <<"priority", PriorityTwo>> >>

\* C9 witness: a content with a feature keyword and a bug keyword, no label
\* of the type scope, and type::bug suggested
C9_Witness ==
  /\ sl_pc = "done"
  /\ Contains(Content(sl_issue), <<"f", "e", "a", "t", "u", "r", "e">>)
  /\ Contains(Content(sl_issue), <<"e", "r", "r", "o", "r">>)
  /\ DictHas(scoped_suggestions, "type")
  /\ DictGet(scoped_suggestions, "type") = TypeBug

(***************************************************************************)
(* generate_time_in_status_report                                          *)
(***************************************************************************)
\* the stage_labels argument: stage -> comma-separated labels
StageLabelsArg ==
  << <<"dev", <<"L", ",", " ", "M">>>>, <<"review", <<"R">>>>, <<"qa", <<>> >> >>

LblL == <<"L">>
LblM == <<"M">>
LblZ == <<"Z">>

\* the clock reading and the months argument of the time-in-status report
StatusToday == <<2024, 3, 31, 43200>>
StatusMonths == 1

\* the issues of the time-in-status snapshots: two issues of two projects
\* sharing an iid, an issue with no workflow label, and an issue created
\* before the window
StatusIssue1 == [id |-> 1, iid |-> 1, project_id |-> 10, labels |-> {LblL},
                 created_at |-> <<2024, 3, 1, 0>>]
StatusIssue2 == [id |-> 2, iid |-> 1, project_id |-> 20, labels |-> {LblM, LblZ},
                 created_at |-> <<2024, 3, 5, 600>>]
StatusIssue3 == [id |-> 3, iid |-> 3, project_id |-> 10, labels |-> {LblZ},
                 created_at |-> <<2024, 3, 2, 0>>]
StatusIssue4 == [id |-> 4, iid |-> 4, project_id |-> 10, labels |-> {LblL},
                 created_at |-> <<2024, 1, 10, 0>>]

StatusSnapshots ==
  { {}, {StatusIssue3}, {StatusIssue1}, {StatusIssue1, StatusIssue2},
    {StatusIssue1, StatusIssue3, StatusIssue4} }

\* the times of the label events
EventTimes ==
  { <<2024, 3, 4, 32400>>, <<2024, 3, 5, 32400>>, <<2024, 3, 6, 45000>> }

\* what a label event may be
LabelEventKinds ==
  { [action |-> a, has_label |-> TRUE, label_name |-> LblL, created_at |-> t] :
      a \in {"add", "remove"}, t \in EventTimes }
  \cup { [action |-> "add", has_label |-> TRUE, label_name |-> LblM,
          created_at |-> <<2024, 3, 5, 32400>>],
         [action |-> "remove", has_label |-> TRUE, label_name |-> LblM,
          created_at |-> <<2024, 3, 6, 45000>>],
         [action |-> "add", has_label |-> TRUE, label_name |-> LblZ,
          created_at |-> <<2024, 3, 4, 32400>>],
         [action |-> "remove", has_label |-> FALSE, label_name |-> <<>>,
          created_at |-> <<2024, 3, 5, 32400>>] }

\* get_issue_label_events(project_id, iid): the label events of the issue as
\* a list, in any order; at most n events
GetIssueLabelEventsResponses(n) ==
  UNION { [1..k -> LabelEventKinds] : k \in 0..n }

RECURSIVE MapLabels(_, _, _)
\* for label in labels_str.split(','): label_to_stage_map[label.strip()] = stage
MapLabels(map, labels, stage) ==
  IF labels = <<>> THEN map
  ELSE MapLabels(DictSet(map, Strip(Head(labels)), stage), Tail(labels), stage)

RECURSIVE BuildLabelToStageMap(_, _)
\* lines 272-279
BuildLabelToStageMap(map, items) ==
  IF items = <<>> THEN map
  ELSE BuildLabelToStageMap(
         IF Head(items)[2] # <<>>
         THEN MapLabels(map, Split(Head(items)[2], ","), Head(items)[1])
         ELSE map,
         Tail(items))

\* {stage: 0 for stage, labels in stage_labels.items() if labels}
InitialStageDurations(items) ==
  LET kept == SelectSeq(items, LAMBDA it : it[2] # <<>>)
  IN [i \in DOMAIN kept |-> <<kept[i][1], 0>>]

\* the events as they come, unsorted
NoSort(events) == events

\* one more element put into a list sorted by created_at, after its equals
InsertByCreatedAt(sorted, e) ==
  LET k == Cardinality({ i \in DOMAIN sorted : TimeLe(sorted[i].created_at, e.created_at) })
  IN SubSeq(sorted, 1, k) \o <<e>> \o SubSeq(sorted, k + 1, Len(sorted))

RECURSIVE SortInto(_, _)
SortInto(sorted, rest) ==
  IF rest = <<>> THEN sorted
  ELSE SortInto(InsertByCreatedAt(sorted, Head(rest)), Tail(rest))

\* events.sort(key=lambda e: e.created_at): a stable sort
SortByCreatedAt(events) == SortInto(<<>>, events)

\* the body of the event loop (lines 299-316) for one event
ReplayEvent(st, event, map) ==
  IF ~event.has_label THEN st
  ELSE IF ~DictHas(map, event.label_name) THEN st
  ELSE LET label_name == event.label_name
           stage      == DictGet(map, label_name)
           event_time == event.created_at
       IN IF event.action = "add"
          THEN [st EXCEPT !.active_labels = DictSet(st.active_labels, label_name, event_time)]
          ELSE IF event.action = "remove" /\ DictHas(st.active_labels, label_name)
          THEN LET start_time == DictGet(st.active_labels, label_name)
                   duration_seconds == SecondsBetween(start_time, event_time)
               IN [ active_labels |-> DictPop(st.active_labels, label_name),
                    time_entries  |-> Append(st.time_entries,
                                             [date |-> event_time, stage |-> stage,
                                              duration |-> duration_seconds]),
                    issue_stage_durations |->
                      DictSet(st.issue_stage_durations, stage,
                              DictGet(st.issue_stage_durations, stage) + duration_seconds) ]
          ELSE st

RECURSIVE Replay(_, _, _)
\* for event in events
Replay(st, events, map) ==
  IF events = <<>> THEN st
  ELSE Replay(ReplayEvent(st, Head(events), map), Tail(events), map)

\* the seconds a man-day is worked out for without recomputation
ManDaysDomain ==
  { SecondsBetween(a, b) : a \in EventTimes, b \in EventTimes }
  \cup { SecondsBetween(a, b) + SecondsBetween(c, d) :
           a \in EventTimes, b \in EventTimes, c \in EventTimes, d \in EventTimes }

ManDaysMemo ==
  { <<n, PyRound2(FDivInt(n, 8 * 3600))>> : n \in { x \in ManDaysDomain : x > 0 } }

\* _convert_seconds_to_man_days(seconds) for an int or float seconds
ConvertSecondsToManDays(seconds) ==
  IF seconds = 0 THEN FZero
  ELSE IF seconds < 0
       THEN LET r == PyRound2(FDivInt(-seconds, 8 * 3600))
            IN [r EXCEPT !.s = IF r.m = <<>> THEN 0 ELSE 1]
  ELSE IF \E mm \in ManDaysMemo : mm[1] = seconds
       THEN (CHOOSE mm \in ManDaysMemo : mm[1] = seconds)[2]
       ELSE PyRound2(FDivInt(seconds, 8 * 3600))

\* delta.total_seconds() / (24 * 3600) of created_date - excel_epoch, as the
\* whole days and the seconds of the last day
ExcelSerial(dt) == << DayNumber(dt[1], dt[2], dt[3]) - DayNumber(1899, 12, 30), dt[4] >>

\* a test for None where the list was to be tested for emptiness
IsNone(lst) == FALSE

\* not lst, for a list
PyNot(lst) == lst = <<>>

ErrNoIssues == "No issues found in the selected period."
ErrNoWorkflowIssues ==
  "No issues with the specified workflow labels found in the selected period."
ErrNoActivity == "No workflow label activity found for the issues in this period."

\* the call up to the issue loop (lines 260-290)
TimeInStatusCall ==
  /\ ts_pc = "idle"
  /\ LET start_date == MinusMonths(StatusToday, StatusMonths)
         map == BuildLabelToStageMap(<<>>, StageLabelsArg)
     IN \E issues \in GetAllIssuesResponses(snapshot,
                        <<<<"created_after", StrftimeYmd(start_date)>>>>) :
          LET to_process ==
                SelectSeq(issues, LAMBDA issue : \E l \in issue.labels : DictHas(map, l))
          IN /\ ts_issues' = issues
             /\ IF PyNot(issues)
                THEN /\ ts_result' = [chart_data |-> <<>>, report |-> <<>>, error |-> ErrNoIssues]
                     /\ ts_pc' = "done"
                     /\ UNCHANGED << label_to_stage_map, issues_to_process >>
                ELSE /\ label_to_stage_map' = map
                     /\ issues_to_process' = to_process
                     /\ IF PyNot(to_process)
                        THEN /\ ts_result' = [chart_data |-> <<>>, report |-> <<>>,
                                              error |-> ErrNoWorkflowIssues]
                             /\ ts_pc' = "done"
                        ELSE /\ ts_pc' = "loop"
                             /\ UNCHANGED ts_result
  /\ UNCHANGED << ts_k, time_entries, issue_details_for_excel, ts_event_log,
                  stage_durations_log >>
  /\ StatusFrame

\* the label events the source has not handed out yet
EventsLeft ==
  LET F[i \in 0..Len(ts_event_log)] ==
        IF i = 0 THEN MaxLabelEvents ELSE F[i - 1] - Len(ts_event_log[i])
  IN F[Len(ts_event_log)]

\* one turn of the issue loop (lines 292-321)
TimeInStatusIssue ==
  /\ ts_pc = "loop"
  /\ ts_k <= Len(issues_to_process)
  /\ LET issue == issues_to_process[ts_k]
     IN \E response \in GetIssueLabelEventsResponses(EventsLeft) :
          LET events == SortByCreatedAt(response)
              st == Replay([ active_labels |-> <<>>,
                             time_entries |-> time_entries,
                             issue_stage_durations |-> InitialStageDurations(StageLabelsArg) ],
                           events, label_to_stage_map)
          IN /\ time_entries' = st.time_entries
             /\ issue_details_for_excel' =
                  DictSet(issue_details_for_excel, issue.iid,
                          [ created_date |-> issue.created_at,
                            durations |->
                              [i \in DOMAIN st.issue_stage_durations |->
                                 << st.issue_stage_durations[i][1],
                                    ConvertSecondsToManDays(st.issue_stage_durations[i][2]) >>] ])
             /\ ts_event_log' = Append(ts_event_log, response)
             /\ stage_durations_log' = Append(stage_durations_log, st.issue_stage_durations)
  /\ ts_k' = ts_k + 1
  /\ UNCHANGED << ts_pc, ts_issues, label_to_stage_map, issues_to_process, ts_result >>
  /\ StatusFrame

\* the seconds recorded for a stage over all time entries
RECURSIVE StageSeconds(_, _)
StageSeconds(entries, stage) ==
  IF entries = <<>> THEN 0
  ELSE (IF Head(entries).stage = stage THEN Head(entries).duration ELSE 0)
       + StageSeconds(Tail(entries), stage)

\* after the loop (lines 323-359): no entry is an error; else the chart (per
\* stage with an entry, its recorded seconds: every event time of the model
\* lies in one week) and the export rows
TimeInStatusReturn ==
  /\ ts_pc = "loop"
  /\ ts_k > Len(issues_to_process)
  /\ IF PyNot(time_entries)
     THEN ts_result' = [chart_data |-> <<>>, report |-> <<>>, error |-> ErrNoActivity]
     ELSE ts_result' =
            [ chart_data |->
                LET stages == SelectSeq(<<"dev", "qa", "review">>,
                                LAMBDA sg : \E i \in DOMAIN time_entries :
                                              time_entries[i].stage = sg)
                IN [i \in DOMAIN stages |-> <<stages[i], StageSeconds(time_entries, stages[i])>>],
              report |->
                [i \in DOMAIN issue_details_for_excel |->
                   [ issue_iid |-> issue_details_for_excel[i][1],
                     created_date |-> ExcelSerial(issue_details_for_excel[i][2].created_date),
                     durations |-> issue_details_for_excel[i][2].durations ]],
              error |-> "" ]
  /\ ts_pc' = "done"
  /\ UNCHANGED << ts_issues, label_to_stage_map, issues_to_process, ts_k, time_entries,
                  issue_details_for_excel, ts_event_log, stage_durations_log >>
  /\ StatusFrame

InitStatus ==
  /\ snapshot \in StatusSnapshots
  /\ EscIdle
  /\ TrendIdle
  /\ LabelIdle
  /\ StatusIdle
  /\ TriageIdle
  /\ BurnIdle
  /\ TatIdle
  /\ ConIdle
  /\ EpicIdle
  /\ RouteIdle

NextStatus ==
  \/ TimeInStatusCall
  \/ TimeInStatusIssue
  \/ TimeInStatusReturn

SpecStatus == InitStatus /\ [][NextStatus]_vars

\* C28: the per-issue export table of generate_time_in_status_report has
\* exactly one row for every processed issue, also when issues of different
\* projects share an iid.
C28_OneRowPerProcessedIssue ==
  (ts_pc = "done" /\ ts_result.error = "") =>
    /\ Len(ts_result.report) = Len(issues_to_process)
    /\ \A k \in DOMAIN issues_to_process :
         \E i \in DOMAIN ts_result.report :
           /\ ts_result.report[i].issue_iid = issues_to_process[k].iid
           /\ ts_result.report[i].created_date = ExcelSerial(issues_to_process[k].created_at)

\* issue 1 of project 10 and issue 1 of project 20 were both processed and
\* the table has one row
C28_SharedIidOneRow ==
  /\ ts_pc = "done"
  /\ ts_result.error = ""
  /\ Len(issues_to_process) = 2
  /\ issues_to_process[1].iid = issues_to_process[2].iid
  /\ issues_to_process[1].project_id # issues_to_process[2].project_id
  /\ Len(ts_result.report) = 1

\* the events of a label carry pairwise different timestamps
DistinctLabelTimes(events) ==
  \A i, j \in DOMAIN events :
    (i # j /\ events[i].has_label /\ events[j].has_label
       /\ events[i].label_name = events[j].label_name)
      => events[i].created_at # events[j].created_at

\* a < b for datetimes
TimeLt(a, b) == TimeLe(a, b) /\ a # b

\* what the remove event events[r] closes: the seconds since the latest
\* earlier add of its label, unless a remove of the label lies in between or
\* there is no earlier add
ClosedSeconds(events, r) ==
  LET adds == { a \in DOMAIN events :
                  /\ events[a].action = "add" /\ events[a].has_label
                  /\ events[a].label_name = events[r].label_name
                  /\ TimeLt(events[a].created_at, events[r].created_at) }
  IN IF adds = {} THEN 0
     ELSE LET a == CHOOSE x \in adds :
                     \A y \in adds : TimeLe(events[y].created_at, events[x].created_at)
          IN IF \E q \in DOMAIN events :
                  /\ events[q].action = "remove" /\ events[q].has_label
                  /\ events[q].label_name = events[r].label_name
                  /\ TimeLt(events[a].created_at, events[q].created_at)
                  /\ TimeLt(events[q].created_at, events[r].created_at)
             THEN 0
             ELSE SecondsBetween(events[a].created_at, events[r].created_at)

\* the seconds a list of events attributes to a stage when replayed in
\* timestamp order
ExpectedStageSeconds(events, stage) ==
  LET F[i \in 0..Len(events)] ==
        IF i = 0 THEN 0
        ELSE F[i - 1] +
             (IF /\ events[i].action = "remove" /\ events[i].has_label
                 /\ DictHas(label_to_stage_map, events[i].label_name)
                 /\ DictGet(label_to_stage_map, events[i].label_name) = stage
              THEN ClosedSeconds(events, i) ELSE 0)
  IN F[Len(events)]

\* C5: an issue's label events are replayed in timestamp order whatever order
\* the source returned them in: add(L,t1), remove(L,t2) attribute exactly
\* t2 - t1 seconds to L's stage, and a second add(L,t3) with no remove in
\* between resets the open interval, so add@t1, add@t3, remove@t4 attribute
\* t4 - t3 (events of one label carrying different timestamps). Stated of the
\* issue processed last: every processed issue is the last one in the state
\* its turn of the loop leads to.
C5_ReplayInTimestampOrder ==
  ts_event_log # <<>> =>
    LET k == Len(ts_event_log)
    IN DistinctLabelTimes(ts_event_log[k]) =>
         \A i \in DOMAIN stage_durations_log[k] :
           stage_durations_log[k][i][2] =
             ExpectedStageSeconds(ts_event_log[k], stage_durations_log[k][i][1])

\* C5 witness: the source returned remove@t4, add@t3, add@t1 of label L, in
\* that order, and t4 - t3 seconds went to L's stage
C5_Witness ==
  \E k \in DOMAIN ts_event_log :
    /\ Len(ts_event_log[k]) = 3
    /\ ts_event_log[k][1] = [action |-> "remove", has_label |-> TRUE, label_name |-> LblL,
                             created_at |-> <<2024, 3, 6, 45000>>]
    /\ ts_event_log[k][2] = [action |-> "add", has_label |-> TRUE, label_name |-> LblL,
                             created_at |-> <<2024, 3, 5, 32400>>]
    /\ ts_event_log[k][3] = [action |-> "add", has_label |-> TRUE, label_name |-> LblL,
                             created_at |-> <<2024, 3, 4, 32400>>]
    /\ DictGet(stage_durations_log[k], "dev") = SecondsPerDay + 45000 - 32400

\* the labels the stage_labels argument maps to a stage
MappedLabels == { LblL, LblM, <<"R">> }

\* events[i] comes before events[j] once the events are put in timestamp
\* order, equal timestamps keeping the order of the response
Precedes(events, i, j) ==
  \/ TimeLt(events[i].created_at, events[j].created_at)
  \/ events[i].created_at = events[j].created_at /\ i < j

IsMapped(events, i) == events[i].has_label /\ events[i].label_name \in MappedLabels

\* the adds of the label of events[r] that come before it
EarlierAdds(events, r) ==
  { a \in DOMAIN events :
      /\ events[a].action = "add" /\ IsMapped(events, a)
      /\ events[a].label_name = events[r].label_name
      /\ Precedes(events, a, r) }

\* the latest of them
LatestAdd(events, r) ==
  CHOOSE a \in EarlierAdds(events, r) :
    \A b \in EarlierAdds(events, r) : b = a \/ Precedes(events, b, a)

\* events[r] is a remove of a mapped label that closes an open interval: an
\* add of the label comes before it with no remove of the label in between
Closes(events, r) ==
  /\ events[r].action = "remove" /\ IsMapped(events, r)
  /\ EarlierAdds(events, r) # {}
  /\ ~\E q \in DOMAIN events :
        /\ events[q].action = "remove" /\ IsMapped(events, q)
        /\ events[q].label_name = events[r].label_name
        /\ Precedes(events, LatestAdd(events, r), q)
        /\ Precedes(events, q, r)

\* the stage the stage_labels argument gives a mapped label
StageOf(label) == IF label = <<"R">> THEN "review" ELSE "dev"

\* the seconds the closing removes of a response give a stage
ClosedStageSeconds(events, stage) ==
  LET F[i \in 0..Len(events)] ==
        IF i = 0 THEN 0
        ELSE F[i - 1] +
             (IF Closes(events, i) /\ StageOf(events[i].label_name) = stage
              THEN SecondsBetween(events[LatestAdd(events, i)].created_at,
                                  events[i].created_at)
              ELSE 0)
  IN F[Len(events)]

\* the number of closing removes of the responses logged so far
ClosingRemoves ==
  LET F[k \in 0..Len(ts_event_log)] ==
        IF k = 0 THEN 0
        ELSE F[k - 1] + Cardinality({ r \in DOMAIN ts_event_log[k] :
                                        Closes(ts_event_log[k], r) })
  IN F[Len(ts_event_log)]

\* C14: generate_time_in_status_report reports "no data" (an error message
\* with an empty chart) whenever no fetched issue carries a mapped label, or
\* no add/remove pair for a mapped label is observed on any processed issue;
\* it never returns a chart in those cases.
C14_NoDataReported ==
  (/\ ts_pc = "done"
   /\ \/ \A i \in DOMAIN ts_issues : ts_issues[i].labels \cap MappedLabels = {}
      \/ ClosingRemoves = 0)
  => /\ ts_result.error # ""
     /\ ts_result.chart_data = <<>>
     /\ ts_result.report = <<>>

\* C14 witness: issues with mapped labels were processed, their events held
\* adds and removes of mapped labels but no pair, and the report says so
C14_Witness ==
  /\ ts_pc = "done"
  /\ issues_to_process # <<>>
  /\ ClosingRemoves = 0
  /\ \E k \in DOMAIN ts_event_log :
       /\ \E i \in DOMAIN ts_event_log[k] :
            ts_event_log[k][i].action = "add" /\ IsMapped(ts_event_log[k], i)
       /\ \E i \in DOMAIN ts_event_log[k] :
            ts_event_log[k][i].action = "remove" /\ IsMapped(ts_event_log[k], i)
  /\ ts_result.error = ErrNoActivity

\* C20: in the time-in-status replay, for any sequence of label events on an
\* issue: an add with no later remove of the same label contributes zero to
\* every stage, a remove with no currently open interval for its label is
\* ignored and changes no total, events for unmapped labels change nothing,
\* and every recorded duration is the difference between a remove and the
\* latest preceding add of the same label (hence never negative). Stated of
\* the issue processed last and of the entries recorded so far.
C20_ReplayIntervals ==
  ts_event_log # <<>> =>
    LET k == Len(ts_event_log)
    IN /\ \A i \in DOMAIN stage_durations_log[k] :
            stage_durations_log[k][i][2] =
              ClosedStageSeconds(ts_event_log[k], stage_durations_log[k][i][1])
       /\ Len(time_entries) = ClosingRemoves
       /\ \A e \in DOMAIN time_entries :
            /\ time_entries[e].duration >= 0
            /\ \E n \in DOMAIN ts_event_log : \E r \in DOMAIN ts_event_log[n] :
                 /\ Closes(ts_event_log[n], r)
                 /\ time_entries[e].date = ts_event_log[n][r].created_at
                 /\ time_entries[e].stage = StageOf(ts_event_log[n][r].label_name)
                 /\ time_entries[e].duration =
                      SecondsBetween(ts_event_log[n][LatestAdd(ts_event_log[n], r)].created_at,
                                     ts_event_log[n][r].created_at)

\* C20 witness: an issue answered with add, remove, remove of label L: the
\* second remove found no open interval and one duration was recorded
C20_Witness ==
  \E k \in DOMAIN ts_event_log :
    /\ Len(ts_event_log[k]) = 3
    /\ ts_event_log[k][1] = [action |-> "add", has_label |-> TRUE, label_name |-> LblL,
                             created_at |-> <<2024, 3, 4, 32400>>]
    /\ ts_event_log[k][2] = [action |-> "remove", has_label |-> TRUE, label_name |-> LblL,
                             created_at |-> <<2024, 3, 5, 32400>>]
    /\ ts_event_log[k][3] = [action |-> "remove", has_label |-> TRUE, label_name |-> LblL,
                             created_at |-> <<2024, 3, 6, 45000>>]
    /\ DictGet(stage_durations_log[k], "dev") = SecondsPerDay
    /\ Len(time_entries) = 1

(***************************************************************************)
(* generate_triage_to_milestone_report (include_next_milestones=False)     *)
(***************************************************************************)
TriageMilestone1 == [id |-> 1, title |-> "v1", due_date |-> <<"2", "0", "2", "4", "-", "0", "3", "-", "1", "5">>]
TriageMilestone2 == [id |-> 2, title |-> "v2", due_date |-> <<"2", "0", "2", "4", "-", "0", "4", "-", "0", "1">>]

\* get_milestones(scope_id, scope_type, start_date=..., end_date=...): the
\* milestones due in the window, as a list
GetMilestonesResponses ==
  { <<>>, <<TriageMilestone1>>, <<TriageMilestone1, TriageMilestone2>>,
    <<TriageMilestone2, TriageMilestone1>> }

NoMilestone == [has |-> FALSE, id |-> 0, title |-> ""]

TriageIssue1 == [id |-> 1, iid |-> 7, project_id |-> 10,
                 labels |-> << <<"x">>, <<"t", "y", "p", "e", ":", ":", "b", "u", "g">>, <<"t", "y", "p", "e", ":", ":", "e", "p", "i", "c">> >>,
                 milestone |-> [has |-> TRUE, id |-> 1, title |-> "v1"],
                 web_url |-> "/p10/issues/7"]
TriageIssue2 == [id |-> 2, iid |-> 8, project_id |-> 20, labels |-> <<>>,
                 milestone |-> [has |-> TRUE, id |-> 2, title |-> "v2"],
                 web_url |-> "/p20/issues/8"]
TriageIssue3 == [id |-> 3, iid |-> 9, project_id |-> 10, labels |-> << <<"t", "e", "a", "m">> >>,
                 milestone |-> [has |-> TRUE, id |-> 1, title |-> "v1"],
                 web_url |-> "/p10/issues/9"]

\* an issue of a project milestone that has the title of milestone 1
TriageIssue4 == [id |-> 4, iid |-> 4, project_id |-> 20, labels |-> <<>>,
                 milestone |-> [has |-> TRUE, id |-> 3, title |-> "v1"],
                 web_url |-> "/p20/issues/4"]

TriageSnapshots ==
  { {}, {TriageIssue1}, {TriageIssue1, TriageIssue2}, {TriageIssue1, TriageIssue3},
    {TriageIssue1, TriageIssue4} }

\* the filter_labels arguments
FilterLabelChoices == { NoStr, Str(<<"t", "y", "p", "e", ":", ":", "b", "u", "g", ",", " ", "t", "e", "a", "m">>) }

\* the times of the milestone events
AssignmentTimes ==
  { <<2024, 3, 1, 0>>, <<2024, 3, 1, 36000>>, <<2024, 3, 15, 0>>, <<2024, 3, 15, 36000>>,
    <<2024, 3, 20, 0>> }

\* what a milestone event may be
MilestoneEventKinds ==
  { [action |-> "add", has_milestone |-> TRUE, milestone_id |-> 1, created_at |-> t] :
      t \in AssignmentTimes }
  \cup { [action |-> "remove", has_milestone |-> TRUE, milestone_id |-> 1,
          created_at |-> <<2024, 2, 28, 0>>],
         [action |-> "add", has_milestone |-> TRUE, milestone_id |-> 2,
          created_at |-> <<2024, 2, 29, 36000>>],
         [action |-> "add", has_milestone |-> TRUE, milestone_id |-> 2,
          created_at |-> <<2024, 4, 1, 1>>],
         [action |-> "add", has_milestone |-> FALSE, milestone_id |-> 0,
          created_at |-> <<2024, 2, 27, 0>>] }

\* get_issue_milestone_events(project_id, iid): the milestone events of the
\* issue as a list, in any order; at most n events
GetIssueMilestoneEventsResponses(n) ==
  UNION { [1..k -> MilestoneEventKinds] : k \in 0..n }

\* get_project(pid): the project, or None
GetProjectResponses(pid) ==
  { [found |-> TRUE, name_with_namespace |-> IF pid = 10 THEN "grp / p10" ELSE "grp / p20"],
    [found |-> FALSE, name_with_namespace |-> ""] }

RECURSIVE FetchMilestoneIssues(_, _)
\* the lists all_issues_unfiltered may be: one get_all_issues per milestone,
\* in the order of the milestones (lines 395-399)
FetchMilestoneIssues(snap, milestones) ==
  IF milestones = <<>> THEN { <<>> }
  ELSE { r \o rest :
           r \in GetAllIssuesResponses(snap, <<<<"milestone", Head(milestones).title>>>>),
           rest \in FetchMilestoneIssues(snap, Tail(milestones)) }

\* {label.strip() for label in filter_labels.split(',') if label.strip()}
RequiredLabels(fl) == Range(ParseLabels(fl.text))

\* lines 404-411
FilterByLabels(issues, fl) ==
  IF ~fl.is_none /\ fl.text # <<>>
  THEN SelectSeq(issues, LAMBDA issue : RequiredLabels(fl) \cap Range(issue.labels) # {})
  ELSE issues

\* the days between two dates, the time of day left out
LagByCalendarDay(due, assigned) ==
  DayNumber(due[1], due[2], due[3]) - DayNumber(assigned[1], assigned[2], assigned[3])

\* (milestone_due_date - assignment_date).days: the whole days of the
\* difference, rounded down
LagDays(due, assigned) == SecondsBetween(assigned, due) \div SecondsPerDay

\* the text after the first "::" of the first label starting with "type::",
\* "NA" when there is none (lines 449-453)
IssueType(labels) ==
  LET typed == SelectSeq(labels, LAMBDA l : StartsWith(l, TypePrefix))
  IN IF typed = <<>> THEN <<"N", "A">>
     ELSE SubSeq(Head(typed), Len(TypePrefix) + 1, Len(Head(typed)))

ErrNoMilestones == "No milestones found for the specified criteria."
ErrNoMilestoneIssues == "No issues found for the selected milestones."
ErrNoLabelMatch ==
  "No issues matched the label filters for the milestones in this period."
ErrNoAssignments ==
  "No valid issue assignments found for past milestones in this period."

\* the project ids of a list of issues, each once, ascending
ProjectIds(issues) ==
  LET ids == { issues[i].project_id : i \in DOMAIN issues }
  IN SelectSeq(<<10, 20>>, LAMBDA pid : pid \in ids)

\* an event adding the issue to any milestone
IsAddToAnyMilestone(e, milestone_id) == e.action = "add" /\ e.has_milestone

\* e.action == 'add' and e.milestone and e.milestone['id'] == milestone.id
IsAddToMilestone(e, milestone_id) ==
  e.action = "add" /\ e.has_milestone /\ e.milestone_id = milestone_id

\* the call from the milestone list on, up to the issue loop (lines 392-423)
TriageFetchIssues(fl, milestones) ==
  /\ filter_labels' = fl
  /\ final_milestones' = milestones
  /\ IF milestones = <<>>
     THEN /\ tr_result' = [report |-> <<>>, error |-> ErrNoMilestones]
          /\ tr_pc' = "done"
          /\ UNCHANGED << tr_all_issues, project_cache >>
     ELSE \E unfiltered \in FetchMilestoneIssues(snapshot, milestones) :
            IF unfiltered = <<>>
            THEN /\ tr_result' = [report |-> <<>>, error |-> ErrNoMilestoneIssues]
                 /\ tr_pc' = "done"
                 /\ UNCHANGED << tr_all_issues, project_cache >>
            ELSE LET all == FilterByLabels(unfiltered, fl)
                 IN /\ tr_all_issues' = all
                    /\ IF all = <<>>
                       THEN /\ tr_result' = [report |-> <<>>, error |-> ErrNoLabelMatch]
                            /\ tr_pc' = "done"
                            /\ UNCHANGED project_cache
                       ELSE /\ \E answer \in [Range(ProjectIds(all)) -> BOOLEAN] :
                                 project_cache' =
                                   [i \in DOMAIN ProjectIds(all) |->
                                      LET pid == ProjectIds(all)[i]
                                          project == CHOOSE pr \in GetProjectResponses(pid) :
                                                       pr.found = answer[pid]
                                      IN << pid, IF project.found
                                                 THEN project.name_with_namespace
                                                 ELSE "Unknown Project" >>]
                            /\ tr_pc' = "loop"
                            /\ UNCHANGED tr_result

\* the call with include_next_milestones=False, up to the issue loop (lines
\* 369-423)
TriageCall ==
  /\ tr_pc = "idle"
  /\ \E fl \in FilterLabelChoices, milestones \in GetMilestonesResponses :
       /\ milestone_queries' = << [state |-> "", result |-> milestones] >>
       /\ TriageFetchIssues(fl, milestones)
  /\ UNCHANGED << tr_k, tr_event_log, detailed_lag_data >>
  /\ TriageFrame

\* the milestone of final_milestones with the given id
MilestoneById(id) ==
  final_milestones[CHOOSE i \in DOMAIN final_milestones :
                     /\ final_milestones[i].id = id
                     /\ \A k \in DOMAIN final_milestones :
                          final_milestones[k].id = id => k <= i]

\* the milestone events the source has not handed out yet
MilestoneEventsLeft ==
  LET F[i \in 0..Len(tr_event_log)] ==
        IF i = 0 THEN MaxMilestoneEvents ELSE F[i - 1] - Len(tr_event_log[i].events)
  IN F[Len(tr_event_log)]

\* a turn of the issue loop that ends at the first `continue` (line 426-427)
TriageSkipIssue ==
  /\ tr_pc = "loop"
  /\ tr_k <= Len(tr_all_issues)
  /\ LET issue == tr_all_issues[tr_k]
     IN \/ ~issue.milestone.has
        \/ ~\E i \in DOMAIN final_milestones : final_milestones[i].id = issue.milestone.id
  /\ tr_k' = tr_k + 1
  /\ UNCHANGED << milestone_queries, tr_pc, filter_labels, final_milestones, tr_all_issues, project_cache,
                  tr_event_log, detailed_lag_data, tr_result >>
  /\ TriageFrame

\* a turn of the issue loop that fetches the issue's events (lines 429-463)
TriageIssue ==
  /\ tr_pc = "loop"
  /\ tr_k <= Len(tr_all_issues)
  /\ LET issue == tr_all_issues[tr_k]
     IN /\ issue.milestone.has
        /\ \E i \in DOMAIN final_milestones : final_milestones[i].id = issue.milestone.id
        /\ \E events \in GetIssueMilestoneEventsResponses(MilestoneEventsLeft) :
             LET milestone == MilestoneById(issue.milestone.id)
                 milestone_due_date == ParseYmd(milestone.due_date)
                 add_events ==
                   SortByCreatedAt(SelectSeq(events, LAMBDA e :
                     IsAddToMilestone(e, milestone.id)))
             IN /\ tr_event_log' = Append(tr_event_log, [issue |-> issue, events |-> events])
                /\ IF add_events = <<>>
                   THEN UNCHANGED detailed_lag_data
                   ELSE LET assignment_date == add_events[1].created_at
                            lag == LagDays(milestone_due_date, assignment_date)
                        IN IF lag >= 0
                           THEN detailed_lag_data' =
                                  Append(detailed_lag_data,
                                    [ project_name |->
                                        IF DictHas(project_cache, issue.project_id)
                                        THEN DictGet(project_cache, issue.project_id)
                                        ELSE "Unknown Project",
                                      issue_iid |-> issue.iid,
                                      issue_type |-> IssueType(issue.labels),
                                      issue_url |-> issue.web_url,
                                      milestone_due_date |-> milestone_due_date,
                                      milestone_assigned_date |-> assignment_date,
                                      lag_days |-> lag ])
                           ELSE UNCHANGED detailed_lag_data
  /\ tr_k' = tr_k + 1
  /\ UNCHANGED << milestone_queries, tr_pc, filter_labels, final_milestones, tr_all_issues, project_cache,
                  tr_result >>
  /\ TriageFrame

\* after the loop (lines 465-470)
TriageReturn ==
  /\ tr_pc = "loop"
  /\ tr_k > Len(tr_all_issues)
  /\ tr_result' = IF detailed_lag_data = <<>>
                  THEN [report |-> <<>>, error |-> ErrNoAssignments]
                  ELSE [report |-> detailed_lag_data, error |-> ""]
  /\ tr_pc' = "done"
  /\ UNCHANGED << milestone_queries, filter_labels, final_milestones, tr_all_issues, project_cache, tr_k,
                  tr_event_log, detailed_lag_data >>
  /\ TriageFrame

InitTriage ==
  /\ snapshot \in TriageSnapshots
  /\ EscIdle
  /\ TrendIdle
  /\ LabelIdle
  /\ StatusIdle
  /\ TriageIdle
  /\ BurnIdle
  /\ TatIdle
  /\ ConIdle
  /\ EpicIdle
  /\ RouteIdle

NextTriage ==
  \/ TriageCall
  \/ TriageSkipIssue
  \/ TriageIssue
  \/ TriageReturn

SpecTriage == InitTriage /\ [][NextTriage]_vars

\* the issue whose events were fetched last, its milestone's due date at
\* 00:00 UTC, and the times of the events adding it to that milestone
LastTriaged == tr_event_log[Len(tr_event_log)]
LastDue == ParseYmd(MilestoneById(LastTriaged.issue.milestone.id).due_date)
LastAddTimes ==
  { LastTriaged.events[i].created_at :
      i \in { k \in DOMAIN LastTriaged.events :
                /\ LastTriaged.events[k].action = "add"
                /\ LastTriaged.events[k].has_milestone
                /\ LastTriaged.events[k].milestone_id = LastTriaged.issue.milestone.id } }
LastFirstAssignment ==
  CHOOSE t \in LastAddTimes : \A u \in LastAddTimes : TimeLe(t, u)
LastRows ==
  { i \in DOMAIN detailed_lag_data : detailed_lag_data[i].issue_iid = LastTriaged.issue.iid }

NoDueDate == <<>>

TriageMilestone3 == [id |-> 3, title |-> "v1", due_date |-> <<"2", "0", "2", "4", "-", "0", "4", "-", "1", "0">>]
TriageMilestone4 == [id |-> 4, title |-> "v4", due_date |-> <<"2", "0", "2", "4", "-", "0", "5", "-", "0", "1">>]
TriageMilestone5 == [id |-> 5, title |-> "v5", due_date |-> <<"2", "0", "2", "4", "-", "0", "6", "-", "0", "1">>]
TriageMilestone6 == [id |-> 6, title |-> "v0", due_date |-> NoDueDate]

\* the end_date argument
TriageEnd == <<"2", "0", "2", "4", "-", "0", "3", "-", "3", "1">>

\* get_milestones(scope_id, scope_type, start_date=..., end_date=...): what
\* the source takes to be in the window, as a list
InRangeResponses ==
  { <<>>, <<TriageMilestone1>>, <<TriageMilestone6, TriageMilestone1>>,
    <<TriageMilestone2, TriageMilestone1>> }

\* get_milestones(scope_id, scope_type, state='active'): the open milestones
\* as a list, [] when the query failed
ActiveResponses ==
  { <<>>,
    <<TriageMilestone5, TriageMilestone4, TriageMilestone3, TriageMilestone2>>,
    <<TriageMilestone3, TriageMilestone6, TriageMilestone1>>,
    <<TriageMilestone4, TriageMilestone5>> }

\* the code point of a character of a date
CharOrd(c) == IF c = "-" THEN 45 ELSE 48 + DigitValue(c)

RECURSIVE StrLt(_, _)
\* a < b for two str
StrLt(a, b) ==
  IF b = <<>> THEN FALSE
  ELSE IF a = <<>> THEN TRUE
  ELSE IF Head(a) = Head(b) THEN StrLt(Tail(a), Tail(b))
  ELSE CharOrd(Head(a)) < CharOrd(Head(b))

\* list.sort(key=Key): the stable sort by a str key
SortByKey(list, Key(_)) ==
  LET Before(i, j) == \/ StrLt(Key(list[i]), Key(list[j]))
                      \/ Key(list[i]) = Key(list[j]) /\ i < j
      Rank(i) == Cardinality({ j \in DOMAIN list : Before(j, i) }) + 1
  IN [k \in DOMAIN list |-> list[CHOOSE i \in DOMAIN list : Rank(i) = k]]

\* lambda m: m.due_date
DueDateKey(m) == m.due_date

\* lambda m: m.due_date if m.due_date else '9999-12-31'
DueDateOrLast(m) ==
  IF m.due_date # NoDueDate THEN m.due_date
  ELSE <<"9", "9", "9", "9", "-", "1", "2", "-", "3", "1">>

\* [m for m in all_open_milestones
\*  if m.due_date and pd.to_datetime(m.due_date, utc=True) > end_date_dt]
FutureMilestones(all_open_milestones, end_date) ==
  SelectSeq(all_open_milestones, LAMBDA m :
    m.due_date # NoDueDate /\ TimeLt(ParseYmd(end_date), ParseYmd(m.due_date)))

\* every future milestone kept
AllOfThem(future_milestones) == future_milestones

\* future_milestones[:3]
NextThree(future_milestones) ==
  SubSeq(future_milestones, 1, IF Len(future_milestones) < 3
                               THEN Len(future_milestones) ELSE 3)

RECURSIVE DictById(_, _)
\* {m.id: m for m in ms}, on top of the dict d
DictById(d, ms) ==
  IF ms = <<>> THEN d ELSE DictById(DictSet(d, Head(ms).id, Head(ms)), Tail(ms))

\* lines 375-390: the milestone list with the next open milestones
WithNextMilestones(milestones_in_range, all_open_milestones, end_date) ==
  LET future_milestones ==
        SortByKey(FutureMilestones(all_open_milestones, end_date), DueDateKey)
      next_three == NextThree(future_milestones)
      combined_milestones == milestones_in_range \o next_three
  IN SortByKey(DictValues(DictById(<<>>, combined_milestones)), DueDateOrLast)

\* the call with include_next_milestones=True, up to the issue loop (lines
\* 369-423)
TriageCallNext ==
  /\ tr_pc = "idle"
  /\ \E fl \in FilterLabelChoices, milestones_in_range \in InRangeResponses,
        all_open_milestones \in ActiveResponses :
       /\ milestone_queries' =
            << [state |-> "", result |-> milestones_in_range],
               [state |-> "active", result |-> all_open_milestones] >>
       /\ TriageFetchIssues(fl, WithNextMilestones(milestones_in_range,
                                                   all_open_milestones, TriageEnd))
  /\ UNCHANGED << tr_k, tr_event_log, detailed_lag_data >>
  /\ TriageFrame

\* the snapshots of this report: no issue, or the issue of milestone 1,
\* whose title milestone 3 has too
TriageNextSnapshots == { {}, {TriageIssue1} }

InitTriageNext ==
  /\ snapshot \in TriageNextSnapshots
  /\ EscIdle
  /\ TrendIdle
  /\ LabelIdle
  /\ StatusIdle
  /\ TriageIdle
  /\ BurnIdle
  /\ TatIdle
  /\ ConIdle
  /\ EpicIdle
  /\ RouteIdle

NextTriageNext ==
  \/ TriageCallNext
  \/ TriageSkipIssue
  \/ TriageIssue
  \/ TriageReturn

SpecTriageNext == InitTriageNext /\ [][NextTriageNext]_vars

\* the two answers of the milestone queries of the call
InRangeAnswer == milestone_queries[1].result
ActiveAnswer == milestone_queries[2].result

\* the open milestones of the answer that are due after the window end
FutureOpen ==
  { m \in Range(ActiveAnswer) :
      m.due_date # NoDueDate /\ TimeLt(ParseYmd(TriageEnd), ParseYmd(m.due_date)) }

\* the milestones of the list that the window did not bring
Added == Range(final_milestones) \ Range(InRangeAnswer)

C29_SameIssueInTwoRows ==
  /\ tr_pc = "done"
  /\ tr_result.error = ""
  /\ TriageMilestone1 \in Range(final_milestones)
  /\ TriageMilestone3 \in Range(final_milestones)
  /\ tr_all_issues = << TriageIssue1, TriageIssue1 >>
  /\ Len(tr_result.report) = 2
  /\ tr_result.report[1].issue_url = tr_result.report[2].issue_url

ProjectNamesFound ==
  { pr.name_with_namespace : pr \in { a \in UNION { GetProjectResponses(pid) : pid \in {10, 20} } :
                                        a.found } }

Strptime(s) ==
  IF /\ Len(s) = 10
     /\ s[5] = "-" /\ s[8] = "-"
     /\ \A i \in {1, 2, 3, 4, 6, 7, 9, 10} : s[i] \in Range(Digits)
     /\ Num2(SubSeq(s, 6, 7)) \in 1..12
     /\ Num4(SubSeq(s, 1, 4)) >= 1
     /\ Num2(SubSeq(s, 9, 10)) \in 1..DaysInMonth(Num4(SubSeq(s, 1, 4)), Num2(SubSeq(s, 6, 7)))
  THEN [ok |-> TRUE, dt |-> ParseYmd(s)]
  ELSE [ok |-> FALSE, dt |-> <<1, 1, 1, 0>>]

\* the start date of the milestones, and how many days after it they are due
BurnStart == <<2024, 1, 25, 0>>
BurnDayOffsets == {-1, 0, 1, 2, 5, 10, 11}

\* the date n days after BurnStart, as a '%Y-%m-%d' string
BurnDate(n) ==
  StrftimeYmd(DateOfDayNumber(DayNumber(BurnStart[1], BurnStart[2], BurnStart[3]) + n))

\* get_single_milestone(group_id, milestone_id): the milestone, or None
GetSingleMilestoneResponses ==
  { NoMilestoneFetched }
  \cup { [found |-> TRUE, title |-> "v1", start_date |-> sd, due_date |-> dd] :
           sd \in { NoStr, Str(BurnDate(0)) },
           dd \in { NoStr, Str(<<"1", "5", "/", "0", "2", "/", "2", "0", "2", "4">>) } \cup { Str(BurnDate(n)) : n \in BurnDayOffsets } }

\* how many issues a milestone has
BurnTotals == {0, 1, 2, 10, 15}

OpenIssue(k) ==
  [iid |-> k, title |-> "t", state |-> "opened", closed_at |-> NoStr, web_url |-> "/i"]
ClosedIssue(k, at) ==
  [iid |-> k, title |-> "t", state |-> "closed", closed_at |-> at, web_url |-> "/i"]

\* how the first issue of a milestone may have been closed
ClosedAtChoices ==
  { Str(<<"2", "0", "2", "4", "-", "0", "1", "-", "2", "6", "T", "1", "0", ":", "0", "0", ":", "0", "0", "Z">>), Str(<<"2", "0", "2", "4", "-", "0", "3", "-", "0", "1", "T", "0", "8", ":", "3", "0", ":", "0", "0", "Z">>), NoStr }

\* the closing times of the lists with two closed issues: the last issue of
\* the list was closed on 2024-01-26, the first one later that day, four
\* days later, or two days before
FirstClosedAt == Str(<<"2", "0", "2", "4", "-", "0", "1", "-", "2", "6", "T", "1", "0", ":", "0", "0", ":", "0", "0", "Z">>)
LaterClosedAtChoices ==
  { Str(<<"2", "0", "2", "4", "-", "0", "1", "-", "2", "6", "T", "2", "3", ":", "5", "9", ":", "5", "9", "Z">>),
    Str(<<"2", "0", "2", "4", "-", "0", "1", "-", "3", "0", "T", "0", "0", ":", "0", "0", ":", "0", "0", "Z">>),
    Str(<<"2", "0", "2", "4", "-", "0", "1", "-", "2", "4", "T", "1", "2", ":", "0", "0", ":", "0", "0", "Z">>) }

\* get_all_issues(milestone=title): n open issues, or n issues the first of
\* which is closed; [] also when the call failed
BurnIssueLists ==
  { [k \in 1..n |-> OpenIssue(k)] : n \in BurnTotals }
  \cup { [k \in 1..n |-> IF k = 1 THEN ClosedIssue(k, at) ELSE OpenIssue(k)] :
           n \in BurnTotals \ {0}, at \in ClosedAtChoices }
  \cup { [k \in 1..n |-> IF k = 1 THEN ClosedIssue(k, at) ELSE OpenIssue(k)] \o
           << ClosedIssue(n + 1, FirstClosedAt) >> :
           n \in {1, 2}, at \in LaterClosedAtChoices }

\* sum(1 for i in issues if i.state == 'closed')
ClosedCount(issues) == Cardinality({ k \in DOMAIN issues : issues[k].state = "closed" })

\* max(0, x) for a float x
FMaxZero(x) == IF FIsPos(x) THEN x ELSE FZero

\* max(0, total_issues - (i * daily_burn_rate)), daily_burn_rate being
\* total_issues / total_days if total_days > 0 else total_issues
IdealPoint(total_issues, total_days, i) ==
  IF total_days > 0
  THEN FMaxZero(FIntMinus(total_issues, FMulInt(FDivInt(total_issues, total_days), i)))
  ELSE IF total_issues - i * total_issues > 0
       THEN FFromInt(total_issues - i * total_issues) ELSE FZero

\* datetime.fromisoformat(closed_at.replace('Z', '+00:00')).strftime('%Y-%m-%d')
ClosedDateStr(closed_at) == StrftimeYmd(ParseYmd(SubSeq(closed_at, 1, 10)))

\* the number of issues closed on the day of the label (line 579-583)
ClosedOn(issues, day_str) ==
  Cardinality({ k \in DOMAIN issues :
                  /\ issues[k].state = "closed"
                  /\ ~issues[k].closed_at.is_none /\ issues[k].closed_at.text # <<>>
                  /\ ClosedDateStr(issues[k].closed_at.text) = day_str })

\* the issues closed on the day of each label taken off the total, day by
\* day, no running count kept
ActualPerDay(issues, labels) ==
  [i \in DOMAIN labels |-> Len(issues) - ClosedOn(issues, labels[i])]

\* lines 584-589
ActualBurn(issues, labels) ==
  LET cumulative[i \in 0..Len(labels)] ==
        IF i = 0 THEN 0 ELSE cumulative[i - 1] + ClosedOn(issues, labels[i])
  IN [i \in DOMAIN labels |-> Len(issues) - cumulative[i]]

Truthy(str) == ~str.is_none /\ str.text # <<>>

\* burndown_data (lines 568-594)
BurndownData(milestone, issues) ==
  LET total_issues == Len(issues)
      open_issues  == total_issues - ClosedCount(issues)
  IN IF Truthy(milestone.start_date) /\ Truthy(milestone.due_date)
     THEN LET sd == Strptime(milestone.start_date.text)
              dd == Strptime(milestone.due_date.text)
          IN IF ~sd.ok \/ ~dd.ok
             THEN [ labels |-> <<"Start", "End">>,
                    ideal  |-> << FFromInt(total_issues), FZero >>,
                    actual |-> << total_issues, open_issues >> ]
             ELSE IF TimeLe(sd.dt, dd.dt)
             THEN LET total_days == LagDays(dd.dt, sd.dt)
                      first == DayNumber(sd.dt[1], sd.dt[2], sd.dt[3])
                      labels == [i \in 1..(total_days + 1) |->
                                   StrftimeYmd(DateOfDayNumber(first + i - 1))]
                  IN [ labels |-> labels,
                       ideal  |-> [i \in 1..(total_days + 1) |->
                                     IdealPoint(total_issues, total_days, i - 1)],
                       actual |-> ActualBurn(issues, labels) ]
             ELSE [ labels |-> <<>>, ideal |-> <<>>, actual |-> <<>> ]
     ELSE [ labels |-> <<"Start", "Current">>,
            ideal  |-> << FFromInt(total_issues), FZero >>,
            actual |-> << total_issues, open_issues >> ]

\* the stats dict (lines 560-566)
MilestoneStats(milestone, issues) ==
  LET total_issues  == Len(issues)
      closed_issues == ClosedCount(issues)
  IN [ completion_percentage |-> Round2(PercentOrZero(closed_issues, total_issues)),
       start_date    |-> milestone.start_date,
       due_date      |-> milestone.due_date,
       total_issues  |-> total_issues,
       closed_issues |-> closed_issues,
       open_issues   |-> total_issues - closed_issues ]

\* the milestone is fetched; None ends the call; else its issues are
\* fetched (lines 556-559)
DetailedMilestoneFetch ==
  /\ bd_pc = "idle"
  /\ \E milestone \in GetSingleMilestoneResponses :
       /\ bd_milestone' = milestone
       /\ IF ~milestone.found
          THEN /\ bd_result' = [report |-> <<>>, error |-> "Milestone not found."]
               /\ bd_pc' = "done"
               /\ UNCHANGED bd_issues
          ELSE /\ \E issues \in BurnIssueLists : bd_issues' = issues
               /\ bd_pc' = "fetched"
               /\ UNCHANGED bd_result
  /\ BurnFrame

\* the stats, the issue rows and the burndown are worked out and rendered
\* (lines 560-595)
DetailedMilestoneRender ==
  /\ bd_pc = "fetched"
  /\ bd_result' =
       [ report |-> [ milestone |-> bd_milestone,
                      stats |-> MilestoneStats(bd_milestone, bd_issues),
                      issues |-> [k \in DOMAIN bd_issues |->
                                    [ iid |-> bd_issues[k].iid, title |-> bd_issues[k].title,
                                      state |-> bd_issues[k].state,
                                      url |-> bd_issues[k].web_url ]],
                      burndown_data |-> BurndownData(bd_milestone, bd_issues) ],
         error |-> "" ]
  /\ bd_pc' = "done"
  /\ UNCHANGED << bd_milestone, bd_issues >>
  /\ BurnFrame

InitBurndown ==
  /\ snapshot = {}
  /\ EscIdle
  /\ TrendIdle
  /\ LabelIdle
  /\ StatusIdle
  /\ TriageIdle
  /\ BurnIdle
  /\ TatIdle
  /\ ConIdle
  /\ EpicIdle
  /\ RouteIdle

NextBurndown ==
  \/ DetailedMilestoneFetch
  \/ DetailedMilestoneRender

SpecBurndown == InitBurndown /\ [][NextBurndown]_vars

\* a report was rendered for a milestone with issues whose two dates parse,
\* the due date strictly after the start date
FullBurndown ==
  /\ bd_pc = "done" /\ bd_milestone.found
  /\ Len(bd_issues) > 0
  /\ Truthy(bd_milestone.start_date) /\ Truthy(bd_milestone.due_date)
  /\ Strptime(bd_milestone.start_date.text).ok /\ Strptime(bd_milestone.due_date.text).ok
  /\ Strptime(bd_milestone.start_date.text).dt # Strptime(bd_milestone.due_date.text).dt
  /\ TimeLe(Strptime(bd_milestone.start_date.text).dt, Strptime(bd_milestone.due_date.text).dt)

BurnTotalDays ==
  LET sd == ParseYmd(bd_milestone.start_date.text)
      dd == ParseYmd(bd_milestone.due_date.text)
  IN DayNumber(dd[1], dd[2], dd[3]) - DayNumber(sd[1], sd[2], sd[3])

\* C7: for every milestone with total > 0 issues and a due date strictly
\* after its start date (totalDays days apart), the ideal burndown series has
\* totalDays + 1 entries, ideal[0] = total, ideal[totalDays] = 0, the series
\* is strictly decreasing and no entry is negative.
C7_IdealBurndown ==
  FullBurndown =>
    LET ideal == bd_result.report.burndown_data.ideal
    IN /\ Len(ideal) = BurnTotalDays + 1
       /\ ideal[1] = FFromInt(Len(bd_issues))
       /\ FIsZero(ideal[BurnTotalDays + 1])
       /\ \A i \in 1..BurnTotalDays : FLt(ideal[i + 1], ideal[i])
       /\ \A i \in 1..(BurnTotalDays + 1) : ~FIsNeg(ideal[i])

\* what of C7 the code does keep: the length, the first entry, the strict
\* decrease and the sign
C7_AllButLastEntry ==
  FullBurndown =>
    LET ideal == bd_result.report.burndown_data.ideal
    IN /\ Len(ideal) = BurnTotalDays + 1
       /\ ideal[1] = FFromInt(Len(bd_issues))
       /\ \A i \in 1..BurnTotalDays : FLt(ideal[i + 1], ideal[i])
       /\ \A i \in 1..(BurnTotalDays + 1) : ~FIsNeg(ideal[i])

\* the 15 issues over 11 days whose last ideal entry is 2^-49
C7_LastEntryNotZero ==
  /\ FullBurndown
  /\ Len(bd_issues) = 15 /\ BurnTotalDays = 11
  /\ bd_result.report.burndown_data.ideal[12] =
       [s |-> 0, m |-> [i \in 1..MantissaBits |-> IF i = MantissaBits THEN 1 ELSE 0],
        e |-> -(49 + MantissaBits - 1)]

\* a report was rendered for a milestone one of whose dates is missing or
\* does not parse, or whose due date precedes its start date
NoDatedBurndown ==
  /\ bd_pc = "done" /\ bd_milestone.found
  /\ \/ ~Truthy(bd_milestone.start_date)
     \/ ~Truthy(bd_milestone.due_date)
     \/ ~Strptime(bd_milestone.start_date.text).ok
     \/ ~Strptime(bd_milestone.due_date.text).ok
     \/ ~TimeLe(Strptime(bd_milestone.start_date.text).dt,
                Strptime(bd_milestone.due_date.text).dt)

\* C13: generate_detailed_milestone_report falls back to the 2-point burndown
\* (two labels, ideal [total, 0], actual [total, openCount]) when the start
\* date is missing, the due date is missing, the due date precedes the start
\* date, or a date fails to parse; in none of them is the burndown left with
\* empty series.
C13_FallbackBurndown ==
  NoDatedBurndown =>
    LET burndown_data == bd_result.report.burndown_data
    IN /\ Len(burndown_data.labels) = 2
       /\ burndown_data.ideal = << FFromInt(Len(bd_issues)), FZero >>
       /\ burndown_data.actual = << Len(bd_issues), Len(bd_issues) - ClosedCount(bd_issues) >>

\* the milestone due the day before it starts, rendered with empty series
C13_EmptySeries ==
  /\ NoDatedBurndown
  /\ Truthy(bd_milestone.start_date) /\ Truthy(bd_milestone.due_date)
  /\ bd_milestone.due_date.text = BurnDate(-1)
  /\ Len(bd_issues) > 0
  /\ bd_result.report.burndown_data = [labels |-> <<>>, ideal |-> <<>>, actual |-> <<>>]

\* a report was rendered for a milestone whose two dates parse, the due date
\* on or after the start date
DatedBurndown == bd_pc = "done" /\ bd_milestone.found /\ ~NoDatedBurndown

\* the day number of a closed issue's closing day
ClosingDay(issue) ==
  LET d == ParseYmd(SubSeq(issue.closed_at.text, 1, 10)) IN DayNumber(d[1], d[2], d[3])

\* the closed issues of the milestone whose closing day lies between the
\* start date and the i-th day of the range
ClosedUpTo(i) ==
  LET sd == ParseYmd(bd_milestone.start_date.text)
      first == DayNumber(sd[1], sd[2], sd[3])
  IN { k \in DOMAIN bd_issues :
         /\ bd_issues[k].state = "closed"
         /\ Truthy(bd_issues[k].closed_at)
         /\ first <= ClosingDay(bd_issues[k])
         /\ ClosingDay(bd_issues[k]) <= first + i - 1 }

\* C23: in the full burndown, actual[i] equals total minus the number of
\* closed issues whose closing day lies between the start date and day i
\* inclusive; the actual series is non-increasing, never exceeds total, never
\* drops below total minus the milestone's closed-issue count, and issues
\* closed outside [start, due] lower no entry.
C23_ActualBurndown ==
  DatedBurndown =>
    LET actual == bd_result.report.burndown_data.actual
        total  == Len(bd_issues)
    IN /\ Len(actual) = BurnTotalDays + 1
       /\ \A i \in DOMAIN actual :
            /\ actual[i] = total - Cardinality(ClosedUpTo(i))
            /\ actual[i] <= total
            /\ actual[i] >= total - ClosedCount(bd_issues)
       /\ \A i \in 1..(Len(actual) - 1) : actual[i + 1] <= actual[i]

\* three issues over ten days, one closed on the second day and one on the
\* sixth: the series goes 3, 2, 2, 2, 2, 1 and stays at 1
C23_Witness ==
  /\ DatedBurndown
  /\ BurnTotalDays = 10
  /\ Len(bd_issues) = 3
  /\ bd_result.report.burndown_data.actual = <<3, 2, 2, 2, 2, 1, 1, 1, 1, 1, 1>>

\* the issues of the snapshot the unfiltered query of a window matches
WindowIssues(w) == MatchingIssues(snapshot, CreatedParams(w[1], w[2]))

\* an issue created strictly inside the month a window spans
StrictlyInside(issue, w) ==
  /\ TimeLt(ParseYmd(w[1]), issue.created_at)
  /\ TimeLt(issue.created_at, ParseYmd(w[2]))

TatToday == <<2024, 3, 20, 43200>>

NoTime == [is_none |-> TRUE, at |-> <<1, 1, 1, 0>>]
At(t) == [is_none |-> FALSE, at |-> t]

\* what the issues of a TAT snapshot may be; no_created_at says that the
\* created_at attribute comes back empty
TatIssueKinds ==
  { [id |-> 1, state |-> "closed", created_at |-> <<2024, 3, 4, 36000>>,
     no_created_at |-> FALSE, closed_at |-> At(<<2024, 3, 6, 0>>)],
    [id |-> 2, state |-> "closed", created_at |-> <<2024, 3, 5, 32400>>,
     no_created_at |-> FALSE, closed_at |-> At(<<2024, 3, 8, 43200>>)],
    [id |-> 3, state |-> "closed", created_at |-> <<2024, 3, 10, 3600>>,
     no_created_at |-> FALSE, closed_at |-> At(<<2024, 3, 12, 3600>>)],
    [id |-> 4, state |-> "closed", created_at |-> <<2024, 3, 11, 86399>>,
     no_created_at |-> FALSE, closed_at |-> At(<<2024, 3, 15, 0>>)],
    [id |-> 5, state |-> "closed", created_at |-> <<2024, 1, 10, 0>>,
     no_created_at |-> FALSE, closed_at |-> At(<<2024, 3, 1, 0>>)],
    [id |-> 6, state |-> "closed", created_at |-> <<2024, 3, 1, 0>>,
     no_created_at |-> FALSE, closed_at |-> NoTime],
    [id |-> 7, state |-> "opened", created_at |-> <<2024, 3, 2, 0>>,
     no_created_at |-> FALSE, closed_at |-> NoTime],
    [id |-> 8, state |-> "closed", created_at |-> <<2024, 3, 7, 0>>,
     no_created_at |-> TRUE, closed_at |-> At(<<2024, 3, 9, 0>>)],
    [id |-> 9, state |-> "closed", created_at |-> <<2024, 2, 21, 7200>>,
     no_created_at |-> FALSE, closed_at |-> At(<<2024, 2, 22, 7200>>)] }

TatSnapshots == { S \in SUBSET TatIssueKinds : Cardinality(S) <= MaxIssues }

\* the day of the week of a day number, Monday 0 .. Sunday 6
Weekday(z) == (z + 3) % 7

\* the day number of the date of a datetime
DayOf(dt) == DayNumber(dt[1], dt[2], dt[3])

\* the Monday that begins the Monday-to-Sunday week of a day
IsoWeekStart(z) == z - Weekday(z)

\* the bin of resample('W-Mon') a timestamp falls in, by its label: weekly
\* bins that END on a Monday, closed on the right, the whole Monday included
WeekEndingMonday(z) == z + ((7 - Weekday(z)) % 7)

\* strftime('%Y-W%U') of a day: the year and the week of the year, weeks
\* beginning on Sunday, the days before the first Sunday in week 0
StrftimeYU(z) ==
  LET dt   == DateOfDayNumber(z)
      yday == z - DayNumber(dt[1], 1, 1)
      wday == (Weekday(z) + 1) % 7
  IN Fmt4(dt[1]) \o <<"-", "W">> \o Fmt2((yday + 7 - wday) \div 7)

ErrNoClosedIssues == "No closed issues found in the selected period."
ErrNoValidDates == "No issues with valid created/closed dates found."

\* params (lines 216-222)
TatParams(today_, months_) ==
  << <<"scope_id", "7">>, <<"scope_type", "group">>, <<"state", "closed">>,
     <<"created_after", StrftimeYmd(MinusMonths(today_, months_))>>,
     <<"created_before", StrftimeYmd(today_)>> >>

\* issue_data (lines 228-234); id is kept to tell whose value a row is
IssueData(issues) ==
  LET dated == SelectSeq(issues, LAMBDA issue :
                 ~issue.no_created_at /\ ~issue.closed_at.is_none)
  IN [k \in DOMAIN dated |->
        [ created_at |-> dated[k].created_at,
          tat |-> FDivIntWide(SecondsBetween(dated[k].created_at, dated[k].closed_at.at),
                              3600 * 24),
          id |-> dated[k].id ]]

\* df.resample('W-Mon')['tat'].mean(): one group per weekly bin from the
\* first to the last bin that holds a row, in order; the mean of a group is
\* left as the values it averages, the mean of an empty group is NaN
Resample(rows) ==
  LET bins  == { WeekEndingMonday(DayOf(rows[k].created_at)) : k \in DOMAIN rows }
      first == CHOOSE b \in bins : \A c \in bins : b <= c
      last  == CHOOSE b \in bins : \A c \in bins : c <= b
  IN [n \in 1..((last - first) \div 7 + 1) |->
        LET week == first + 7 * (n - 1)
            members == SelectSeq(rows, LAMBDA r :
                         WeekEndingMonday(DayOf(r.created_at)) = week)
        IN [ week |-> week,
             mean_of |-> [k \in DOMAIN members |-> members[k].tat],
             ids |-> { members[k].id : k \in DOMAIN members } ]]

\* weekly_avg_tat.dropna(): the groups with a mean
DropNa(groups) == SelectSeq(groups, LAMBDA g : g.mean_of # <<>>)

\* the call and the query (lines 213-226)
TatTrendCall ==
  /\ tat_pc = "idle"
  /\ \E n \in 1..MaxMonths :
       /\ tat_months' = n
       /\ \E issues \in GetAllIssuesResponses(snapshot, TatParams(TatToday, n)) :
            /\ tat_issues' = issues
            /\ IF PyNot(issues)
               THEN /\ tat_result' = [chart_data |-> <<>>, error |-> ErrNoClosedIssues]
                    /\ tat_pc' = "done"
               ELSE /\ tat_pc' = "fetched"
                    /\ UNCHANGED tat_result
  /\ UNCHANGED << issue_data, weekly_avg_tat >>
  /\ TatFrame

\* the TAT values, the weekly means and the chart (lines 228-253)
TatTrendReturn ==
  /\ tat_pc = "fetched"
  /\ LET rows == IssueData(tat_issues)
     IN /\ issue_data' = rows
        /\ IF PyNot(rows)
           THEN /\ tat_result' = [chart_data |-> <<>>, error |-> ErrNoValidDates]
                /\ UNCHANGED weekly_avg_tat
           ELSE LET weekly == DropNa(Resample(rows))
                IN /\ weekly_avg_tat' = weekly
                   /\ tat_result' =
                        [ chart_data |->
                            [ labels |-> [k \in DOMAIN weekly |-> StrftimeYU(weekly[k].week)],
                              tat_values |-> [k \in DOMAIN weekly |-> weekly[k].mean_of] ],
                          error |-> "" ]
  /\ tat_pc' = "done"
  /\ UNCHANGED << tat_months, tat_issues >>
  /\ TatFrame

InitTat ==
  /\ snapshot \in TatSnapshots
  /\ EscIdle
  /\ TrendIdle
  /\ LabelIdle
  /\ StatusIdle
  /\ TriageIdle
  /\ BurnIdle
  /\ TatIdle
  /\ ConIdle
  /\ EpicIdle
  /\ RouteIdle

NextTat ==
  \/ TatTrendCall
  \/ TatTrendReturn

SpecTat == InitTat /\ [][NextTat]_vars

\* the issues whose TAT went into the chart
Contributing == UNION { weekly_avg_tat[k].ids : k \in DOMAIN weekly_avg_tat }

\* the issue of the snapshot with the given id
TatIssue(id) == CHOOSE issue \in snapshot : issue.id = id

\* C18: generate_issue_tat_trend_report groups issues by the ISO week (Monday
\* to Sunday) of created_at: two issues are averaged into the same point iff
\* their creation dates lie in the same Monday-anchored week; weeks with no
\* issue produce no point, and points are emitted in chronological order.
C18_GroupedByIsoWeek ==
  (tat_pc = "done" /\ tat_result.error = "") =>
    /\ \A a \in Contributing, b \in Contributing :
         (\E k \in DOMAIN weekly_avg_tat :
            a \in weekly_avg_tat[k].ids /\ b \in weekly_avg_tat[k].ids)
         <=> IsoWeekStart(DayOf(TatIssue(a).created_at))
               = IsoWeekStart(DayOf(TatIssue(b).created_at))
    /\ \A k \in DOMAIN weekly_avg_tat : weekly_avg_tat[k].ids # {}
    /\ \A k \in 1..(Len(weekly_avg_tat) - 1) :
         weekly_avg_tat[k].week < weekly_avg_tat[k + 1].week
    /\ Len(tat_result.chart_data.labels) = Len(weekly_avg_tat)

\* the issues created on Monday 2024-03-04 and on Tuesday 2024-03-05, in two
\* points
C18_MondayAndTuesdayApart ==
  /\ tat_pc = "done" /\ tat_result.error = ""
  /\ Contributing = {1, 2}
  /\ Len(weekly_avg_tat) = 2
  /\ weekly_avg_tat[1].ids = {1} /\ weekly_avg_tat[2].ids = {2}

\* the query was answered in full: with every issue that matches it
TatQueryAnswered ==
  Range(tat_issues) = MatchingIssues(snapshot, TatParams(TatToday, tat_months))

\* C19: generate_issue_tat_trend_report covers all issues closed within
\* [today - monthsBack, today]: an issue closed inside that window contributes
\* a TAT value even when it was created before the window started, and an
\* issue lacking created_at or closed_at contributes nothing. Stated of the
\* calls whose query was answered in full.
C19_ClosedInWindowCovered ==
  (tat_pc = "done" /\ TatQueryAnswered) =>
    \A issue \in snapshot :
      /\ (/\ issue.state = "closed"
          /\ ~issue.no_created_at /\ ~issue.closed_at.is_none
          /\ TimeLe(MinusMonths(TatToday, tat_months), issue.closed_at.at)
          /\ TimeLe(issue.closed_at.at, TatToday))
         => issue.id \in Contributing
      /\ (issue.no_created_at \/ issue.closed_at.is_none) => issue.id \notin Contributing

\* the issue created in January and closed on 2024-03-01, left out of the
\* report of one month although another issue went in
C19_ClosedInWindowLeftOut ==
  /\ tat_pc = "done" /\ TatQueryAnswered
  /\ tat_months = 1
  /\ \E issue \in snapshot : issue.id = 5
  /\ Contributing # {}
  /\ 5 \notin Contributing

(***************************************************************************)
(* Two report requests side by side: generate_report builds a GitLabService *)
(* per request, _fetch_issues_with_or_labels a dict per call; the requests  *)
(* take turns at the Issue Source queries                                   *)
(***************************************************************************)
\* what each request asks for: the window and the two label lists
ConData(r) ==
  IF r = 1
  THEN [start_date |-> EscStart, end_date |-> EscEnd,
        qa_labels |-> <<"q", "a">>, prod_labels |-> <<"p", "r", "o", "d">>]
  ELSE [start_date |-> EscStart, end_date |-> EscEnd,
        qa_labels |-> <<"p", "r", "o", "d">>, prod_labels |-> <<"q", "a">>]

\* the snapshots the two requests read: every issue carries one of the two
\* labels they ask for, and no label is carried by more than two issues
ConSnapshots ==
  { S \in Snapshots :
      /\ \A i \in S : i.labels \in { {LblQA}, {LblProd} }
      /\ \A l \in {LblQA, LblProd} :
           \A T \in SUBSET S : (\A i \in T : l \in i.labels) => Cardinality(T) <= 2 }

\* one dict for every call: the first dict ever created, handed out again
FirstDict(r, phase) == <<1, "qa">>

\* all_issues = {} (line 93): a dict of the call's own
NewDict(r, phase) == <<r, phase>>

\* gl_service = GitLabService(session['gitlab_url'], session['access_token'])
\* (routes.py line 107): an object of the request's own
NewService(r) == r

\* the request is under way: called and not returned
UnderWay(r) == con_req[r].pc \in {"qa", "prod", "total"}

\* the request arrives: its service is built from its session, created_params
\* is built and the QA fetch starts with an empty dict
GenerateReport(r) ==
  /\ con_req[r].pc = "idle"
  /\ LET sv  == NewService(r)
         ref == NewDict(r, "qa")
     IN /\ con_services' =
             [con_services EXCEPT ![sv] = [gitlab_url    |-> con_session[r].gitlab_url,
                                           private_token |-> con_session[r].access_token]]
        /\ con_dicts' = [con_dicts EXCEPT ![ref] = <<>>]
        /\ con_req' =
             [con_req EXCEPT ![r] =
                [@ EXCEPT !.pc = "qa", !.gl_service = sv,
                          !.created_params =
                             CreatedParams(ConData(r).start_date, ConData(r).end_date),
                          !.fetch_labels = ParseLabels(ConData(r).qa_labels),
                          !.fetch_i = 1, !.all_issues = ref]]
  /\ ConFrame
  /\ UNCHANGED << con_session, con_overlap >>

\* one turn of the loop over the labels, sent through the request's service
ConFetchLabelQuery(r) ==
  /\ con_req[r].pc \in {"qa", "prod"}
  /\ con_req[r].fetch_i <= Len(con_req[r].fetch_labels)
  /\ LET me  == con_req[r]
         set == CopyAndSetLabel(me.created_params, me.fetch_labels[me.fetch_i])
     IN \E issues \in GetAllIssuesResponses(snapshot, set.params) :
          /\ con_dicts' = [con_dicts EXCEPT ![me.all_issues] = PutIssues(@, issues)]
          /\ con_req' =
               [con_req EXCEPT ![r] =
                  [@ EXCEPT !.created_params = set.base_params,
                            !.fetch_i = @ + 1,
                            !.sent_with = @ \cup {con_services[me.gl_service]}]]
  /\ con_overlap' = (con_overlap \/ UnderWay(Other(r)))
  /\ ConFrame
  /\ UNCHANGED << con_session, con_services >>

\* the QA fetch returns list(all_issues.values()); the production fetch
\* starts with an empty dict
ConFetchQaReturn(r) ==
  /\ con_req[r].pc = "qa"
  /\ con_req[r].fetch_i > Len(con_req[r].fetch_labels)
  /\ LET ref == NewDict(r, "prod")
     IN /\ con_dicts' = [con_dicts EXCEPT ![ref] = <<>>]
        /\ con_req' =
             [con_req EXCEPT ![r] =
                [@ EXCEPT !.pc = "prod",
                          !.qa_issues = DictValues(con_dicts[con_req[r].all_issues]),
                          !.fetch_labels = ParseLabels(ConData(r).prod_labels),
                          !.fetch_i = 1, !.all_issues = ref]]
  /\ ConFrame
  /\ UNCHANGED << con_session, con_services, con_overlap >>

\* the production fetch returns
ConFetchProdReturn(r) ==
  /\ con_req[r].pc = "prod"
  /\ con_req[r].fetch_i > Len(con_req[r].fetch_labels)
  /\ con_req' =
       [con_req EXCEPT ![r] =
          [@ EXCEPT !.pc = "total",
                    !.prod_issues = DictValues(con_dicts[con_req[r].all_issues])]]
  /\ ConFrame
  /\ UNCHANGED << con_session, con_services, con_dicts, con_overlap >>

\* the unfiltered query and the arithmetic
ConTotalQueryAndReturn(r) ==
  /\ con_req[r].pc = "total"
  /\ LET me == con_req[r]
     IN \E issues \in GetAllIssuesResponses(snapshot, me.created_params) :
          con_req' =
            [con_req EXCEPT ![r] =
               [@ EXCEPT !.pc = "done",
                         !.sent_with = @ \cup {con_services[me.gl_service]},
                         !.metrics = EscapeMetrics(me.qa_issues, me.prod_issues, issues)]]
  /\ con_overlap' = (con_overlap \/ UnderWay(Other(r)))
  /\ ConFrame
  /\ UNCHANGED << con_session, con_services, con_dicts >>

InitConcurrent ==
  /\ snapshot \in ConSnapshots
  /\ EscIdle
  /\ TrendIdle
  /\ LabelIdle
  /\ StatusIdle
  /\ TriageIdle
  /\ BurnIdle
  /\ TatIdle
  /\ ConIdle
  /\ EpicIdle
  /\ RouteIdle

NextConcurrent ==
  \E r \in Requests :
    \/ GenerateReport(r)
    \/ ConFetchLabelQuery(r)
    \/ ConFetchQaReturn(r)
    \/ ConFetchProdReturn(r)
    \/ ConTotalQueryAndReturn(r)

SpecConcurrent == InitConcurrent /\ [][NextConcurrent]_vars

\* the request, run alone on the snapshot, may return the dict: some answers
\* to its queries give the dict's counts and then the dict itself
ReturnsAlone(r, result) ==
  LET params == CreatedParams(ConData(r).start_date, ConData(r).end_date)
  IN \E qr \in LabelResponses(snapshot, ParseLabels(ConData(r).qa_labels), params),
        pr \in LabelResponses(snapshot, ParseLabels(ConData(r).prod_labels), params),
        tot \in GetAllIssuesResponses(snapshot, params) :
       LET qa == DictValues(FetchFold(<<>>, qr))
           pd == DictValues(FetchFold(<<>>, pr))
       IN /\ Len(qa) = result.total_qa_bugs
          /\ Len(pd) = result.total_prod_bugs
          /\ TotalTickets(tot, Len(qa)) = result.total_tickets
          /\ result = EscapeMetrics(qa, pd, tot)

\* C15: concurrent report requests share no mutable state: when two report
\* requests interleave at any query boundary, each builds its own
\* GitLabService from its own session credentials and its own accumulators,
\* and each returns a result it may return when run alone against the same
\* snapshot.
C15_RequestsIsolated ==
  /\ \A r \in Requests :
       /\ con_req[r].pc # "idle" =>
            /\ con_services[con_req[r].gl_service].gitlab_url = con_session[r].gitlab_url
            /\ con_services[con_req[r].gl_service].private_token
                 = con_session[r].access_token
            /\ con_req[r].gl_service # con_req[Other(r)].gl_service
            /\ con_req[r].all_issues # con_req[Other(r)].all_issues
       /\ con_req[r].pc = "done" =>
            /\ ReturnsAlone(r, con_req[r].metrics)
            /\ \A sv \in con_req[r].sent_with :
                 sv.private_token = con_session[r].access_token

\* both requests returned after their queries took turns, with bugs counted
\* and two different results
C15_Witness ==
  /\ \A r \in Requests : con_req[r].pc = "done" /\ con_req[r].metrics.total_qa_bugs > 0
  /\ con_overlap
  /\ con_req[1].metrics # con_req[2].metrics

(***************************************************************************)
(* GitLabService.get_epic_issues and _get_descendant_epic_issues           *)
(***************************************************************************)
\* the frames of _get_descendant_epic_issues the interpreter allows on top of
\* each other before it raises RecursionError
EpicRecursionLimit == 4

EpicIids == {1, 2, 3}

\* the epic the report is asked for
RootEpic == 1

\* epic.issues.list(all=True, as_list=True) of each epic; issue 11 is in two
\* epics
EpicIssueLists ==
  [e \in EpicIids |->
     IF e = 1 THEN << [id |-> 11] >>
     ELSE IF e = 2 THEN << [id |-> 12], [id |-> 11] >>
     ELSE << [id |-> 13] >>]

\* the hierarchies of the source: epic.epics.list(all=True, as_list=True) of
\* each epic. A chain, a tree, a diamond, a single epic, and four
\* hierarchies with a cycle
EpicHierarchies ==
  { <<<<2>>, <<3>>, <<>>>>, <<<<2, 3>>, <<>>, <<>>>>, <<<<2, 3>>, <<3>>, <<>>>>,
    <<<<>>, <<>>, <<>>>>,
    <<<<2>>, <<1>>, <<>>>>, <<<<1>>, <<>>, <<>>>>, <<<<2>>, <<3>>, <<2>>>>,
    <<<<2, 3>>, <<1>>, <<>>>> }

\* the list as it is, repeated issues kept
KeepRepeated(issues) == issues

\* list({issue.id: issue for issue in all_issues}.values())
UniqueById(issues) == DictValues(DictById(<<>>, issues))

\* the call _get_descendant_epic_issues(group, epic_iid, issues_list) up to
\* its loop: the epic is fetched, its issues extend the list and its child
\* epics are listed; or a fetch raises, the except clause logs, and the call
\* is over
EnterEpic(epic_iid) ==
  /\ ep_entered' = Append(ep_entered, epic_iid)
  /\ \/ /\ issues_list' = issues_list \o EpicIssueLists[epic_iid]
        /\ ep_stack' = Append(ep_stack, [iid |-> epic_iid,
                                         descendants |-> epic_children[epic_iid],
                                         next |-> 1])
        /\ UNCHANGED ep_raised
     \/ /\ ep_raised' = ep_raised \cup {"GitlabError"}
        /\ UNCHANGED << issues_list, ep_stack >>

\* get_epic_issues starts: all_issues = [] and the first call
GetEpicIssuesCall ==
  /\ ep_pc = "idle"
  /\ ep_pc' = "running"
  /\ EnterEpic(RootEpic)
  /\ UNCHANGED << epic_children, unique_issues >>
  /\ EpicFrame

\* the top call of the stack without its frame, its loop moved on by one
LoopMovedOn ==
  [ep_stack EXCEPT ![Len(ep_stack)].next = @ + 1]

\* a turn of the loop over the descendants: the call for the next child epic
DescendIntoEpic ==
  /\ ep_pc = "running"
  /\ ep_stack # <<>>
  /\ LET top == ep_stack[Len(ep_stack)]
     IN /\ top.next <= Len(top.descendants)
        /\ Len(ep_stack) < EpicRecursionLimit
        /\ ep_entered' = Append(ep_entered, top.descendants[top.next])
        /\ \/ /\ issues_list' = issues_list \o EpicIssueLists[top.descendants[top.next]]
              /\ ep_stack' =
                   Append(LoopMovedOn,
                          [iid |-> top.descendants[top.next],
                           descendants |-> epic_children[top.descendants[top.next]],
                           next |-> 1])
              /\ UNCHANGED ep_raised
           \/ /\ ep_raised' = ep_raised \cup {"GitlabError"}
              /\ ep_stack' = LoopMovedOn
              /\ UNCHANGED issues_list
  /\ UNCHANGED << epic_children, ep_pc, unique_issues >>
  /\ EpicFrame

\* the call for the next child epic would be one frame too many: it raises
\* RecursionError in the calling frame, whose except clause logs it, and the
\* calling frame is over with its loop unfinished
RecursionErrorCaught ==
  /\ ep_pc = "running"
  /\ ep_stack # <<>>
  /\ LET top == ep_stack[Len(ep_stack)]
     IN /\ top.next <= Len(top.descendants)
        /\ Len(ep_stack) >= EpicRecursionLimit
  /\ ep_raised' = ep_raised \cup {"RecursionError"}
  /\ ep_stack' = SubSeq(ep_stack, 1, Len(ep_stack) - 1)
  /\ UNCHANGED << epic_children, ep_pc, issues_list, ep_entered, unique_issues >>
  /\ EpicFrame

\* the loop of the top call is through: the call returns
EpicCallReturns ==
  /\ ep_pc = "running"
  /\ ep_stack # <<>>
  /\ ep_stack[Len(ep_stack)].next > Len(ep_stack[Len(ep_stack)].descendants)
  /\ ep_stack' = SubSeq(ep_stack, 1, Len(ep_stack) - 1)
  /\ UNCHANGED << epic_children, ep_pc, issues_list, ep_entered, ep_raised,
                  unique_issues >>
  /\ EpicFrame

\* the first call has returned: the list is made unique by id and returned
GetEpicIssuesReturn ==
  /\ ep_pc = "running"
  /\ ep_stack = <<>>
  /\ unique_issues' = UniqueById(issues_list)
  /\ ep_pc' = "done"
  /\ UNCHANGED << epic_children, ep_stack, issues_list, ep_entered, ep_raised >>
  /\ EpicFrame

InitEpic ==
  /\ snapshot = {}
  /\ EscIdle
  /\ TrendIdle
  /\ LabelIdle
  /\ StatusIdle
  /\ TriageIdle
  /\ BurnIdle
  /\ TatIdle
  /\ ConIdle
  /\ RouteIdle
  /\ epic_children \in EpicHierarchies
  /\ ep_pc = "idle"
  /\ ep_stack = <<>>
  /\ issues_list = <<>>
  /\ ep_entered = <<>>
  /\ ep_raised = {}
  /\ unique_issues = <<>>

NextEpic ==
  \/ GetEpicIssuesCall
  \/ DescendIntoEpic
  \/ RecursionErrorCaught
  \/ EpicCallReturns
  \/ GetEpicIssuesReturn

\* the interpreter runs the one thread of the request on: a step that can be
\* taken is taken
SpecEpic == InitEpic /\ [][NextEpic]_vars /\ WF_vars(NextEpic)

RECURSIVE EpicsWithin(_, _)
\* the epics reached from the epics of S by at most n child links
EpicsWithin(S, n) ==
  IF n = 0 THEN S
  ELSE EpicsWithin(S \cup UNION { Range(epic_children[e]) : e \in S }, n - 1)

\* the root epic and its descendants
ReachableEpics == EpicsWithin({RootEpic}, Cardinality(EpicIids))

\* some reachable epic is its own descendant
CyclicHierarchy ==
  \E e \in ReachableEpics :
    e \in EpicsWithin(Range(epic_children[e]), Cardinality(EpicIids))

\* the ids of the issues of the reachable epics
ReachableIssueIds ==
  UNION { { EpicIssueLists[e][k].id : k \in DOMAIN EpicIssueLists[e] } : e \in ReachableEpics }

\* a call was made for an epic for which a call is still under way
ReEntered ==
  \E i, j \in DOMAIN ep_entered : i < j /\ ep_entered[i] = ep_entered[j]

\* what holds of the traversal in every state
EpicTraversalInvariant ==
  /\ ep_pc = "done" => DistinctIds(unique_issues)
  /\ (CyclicHierarchy /\ ep_pc = "done" /\ "GitlabError" \notin ep_raised) =>
       /\ "RecursionError" \in ep_raised
       /\ ReEntered
  /\ ~CyclicHierarchy =>
       /\ "RecursionError" \notin ep_raised
       /\ (ep_pc = "done" /\ "GitlabError" \notin ep_raised) =>
            { unique_issues[k].id : k \in DOMAIN unique_issues } = ReachableIssueIds

\* C25: the recursive descendant-epic traversal behind get_epic_issues keeps
\* no visited set and does not guard against cyclic epic references: on an
\* epic hierarchy that contains a cycle it re-enters an epic it has already
\* visited and does not reach completion by exhausting the epics (it ends
\* only where RecursionError or a failed fetch cuts it off), whereas on an
\* acyclic hierarchy it terminates and returns each reachable issue exactly
\* once (deduplicated by id).
C25_EpicTraversal ==
  /\ []EpicTraversalInvariant
  /\ (~CyclicHierarchy) ~> (ep_pc = "done")

\* the hierarchy 1 -> 2 -> 1: the calls went 1, 2, 1, 2 until RecursionError
\* was caught, and the two issues came back once each
C25_Witness ==
  /\ ep_pc = "done"
  /\ epic_children = <<<<2>>, <<1>>, <<>>>>
  /\ ep_raised = {"RecursionError"}
  /\ ep_entered = <<1, 2, 1, 2>>
  /\ Len(issues_list) = 6
  /\ Len(unique_issues) = 2

\* the diamond 1 -> 2 -> 3, 1 -> 3: epic 3 was listed twice, no exception was
\* caught, and the three issues came back once each
C25_DiamondOnce ==
  /\ ep_pc = "done"
  /\ epic_children = <<<<2, 3>>, <<3>>, <<>>>>
  /\ ep_raised = {}
  /\ Len(issues_list) = 5
  /\ Len(unique_issues) = 3

(***************************************************************************)
(* routes.py: the session and the routes                                   *)
(***************************************************************************)
\* session.clear(), and the session of a browser that never connected
EmptySession == [is_connected |-> FALSE, gitlab_url |-> "", access_token |-> 0]

\* the access tokens a connection form may carry
FormTokens == {1, 2}

\* the routes answering JSON that build a GitLabService
ApiServiceRoutes ==
  { "get_group_children", "label_generator", "update_labels", "create_issue",
    "get_scope_data", "search_issues", "search_users", "get_user_activity",
    "search_epics", "get_lead_cycle_time" }

ApiRoutes == ApiServiceRoutes \cup { "generate_report", "prd_to_story" }

\* the routes rendering a page from the session alone
PageRoutes ==
  { "dashboard", "automations_page", "search_export_page", "team_activity_page",
    "lead_cycle_time_page" }

DownloadRoutes ==
  { "download_report", "download_detailed_milestone_report", "download_search_results",
    "download_user_activity" }

\* every route except the index form and logout
ProtectedRoutes == ApiRoutes \cup PageRoutes \cup DownloadRoutes

\* the routes that return on a missing parameter before they build the service
ValidatingRoutes ==
  (ApiServiceRoutes \ { "search_issues" }) \cup (DownloadRoutes \ { "download_search_results" })

ReportTypes ==
  { "epic_report", "defect_trend", "milestone_analytics", "defect_escape",
    "issue_analytics", "unknown" }

\* what the Issue Source does for a request: answers with rows, answers with
\* nothing, or raises
SourceOutcomes == { "rows", "empty", "raises" }

NoRouteService == [gitlab_url |-> "", private_token |-> 0]

\* a request as it comes in
Incoming(route, report_type, complete) ==
  [ route |-> route, report_type |-> report_type, complete |-> complete,
    connected |-> session.is_connected, built |-> FALSE, gl_service |-> NoRouteService,
    source |-> "none", reached |-> {}, answer |-> "" ]

\* a guard that lets every session through
AnySession(s) == TRUE

\* session.get('is_connected')
IsConnected(s) == s.is_connected

\* GitLabService(session['gitlab_url'], session['access_token'])
SessionService == [gitlab_url |-> session.gitlab_url, private_token |-> session.access_token]

\* the parameters of ReportGenerator.generate_milestone_list
GenerateMilestoneListParams ==
  << "gl_service", "scope_id", "scope_type", "start_date", "end_date" >>

\* the positional arguments the route passes to generate_milestone_list
MilestoneAnalyticsArgs == << "gl_service", "scope_id", "start_date", "end_date" >>

\* the positional parameters of GitLabService.get_milestones after self; its
\* keyword arguments go to **kwargs
GetMilestonesParams == << "group_id" >>

\* the positional arguments generate_milestone_list passes to get_milestones
GenerateMilestoneListArgs == << "scope_id", "scope_type" >>

\* a Python call of a function whose parameters have no defaults, with
\* positional arguments: the parameters are bound, or TypeError is raised
BindPositional(params, args) ==
  IF Len(args) = Len(params) THEN "bound" ELSE "TypeError"

\* the operations a milestone_analytics request reaches with their arguments
\* bound
MilestoneAnalyticsReached ==
  IF BindPositional(GenerateMilestoneListParams, MilestoneAnalyticsArgs) = "TypeError"
  THEN {}
  ELSE IF BindPositional(GetMilestonesParams, GenerateMilestoneListArgs) = "TypeError"
       THEN { "generate_milestone_list" }
       ELSE { "generate_milestone_list", "get_milestones" }

\* what the report call of generate_report comes to: a result, the
\* operation's own message, or an exception
ReportOutcome(report_type, source) ==
  IF report_type = "milestone_analytics"
  THEN IF "get_milestones" \in MilestoneAnalyticsReached THEN source ELSE "raises"
  ELSE IF report_type = "unknown" THEN "rows" ELSE source

\* index(): the connection form; a valid submission builds a service from the
\* form and asks for the user's groups
Index ==
  /\ \E submitted \in BOOLEAN, token \in FormTokens, source \in { "rows", "raises" } :
       LET req == Incoming("index", "", submitted)
       IN IF ~submitted
          THEN /\ last_request' = [req EXCEPT !.answer = "form"]
               /\ UNCHANGED << session, connected_once, since_logout >>
          ELSE LET built == [req EXCEPT !.built = TRUE,
                                        !.gl_service = [gitlab_url |-> "https://gitlab.example",
                                                        private_token |-> token],
                                        !.source = source]
               IN IF source = "raises"
                  THEN /\ last_request' = [built EXCEPT !.answer = "form"]
                       /\ UNCHANGED << session, connected_once, since_logout >>
                  ELSE /\ session' = [is_connected |-> TRUE,
                                      gitlab_url |-> "https://gitlab.example",
                                      access_token |-> token]
                       /\ connected_once' = TRUE
                       /\ since_logout' = FALSE
                       /\ last_request' = [built EXCEPT !.answer = "redirect_dashboard"]
  /\ RouteFrame

\* logout()
Logout ==
  /\ session' = EmptySession
  /\ since_logout' = TRUE
  /\ last_request' = [Incoming("logout", "", TRUE) EXCEPT !.answer = "redirect_index"]
  /\ UNCHANGED connected_once
  /\ RouteFrame

\* dashboard(), automations_page(), search_export_page(), team_activity_page(),
\* lead_cycle_time_page()
PageRequest ==
  /\ \E route \in PageRoutes :
       LET req == Incoming(route, "", TRUE)
       IN last_request' = [req EXCEPT !.answer = IF ~IsConnected(session)
                                                 THEN "redirect_index" ELSE "page"]
  /\ UNCHANGED << session, connected_once, since_logout >>
  /\ RouteFrame

\* prd_to_story(): no GitLabService
PrdToStory ==
  /\ \E complete \in BOOLEAN, ok \in BOOLEAN :
       LET req == Incoming("prd_to_story", "", complete)
       IN last_request' = [req EXCEPT !.answer = IF ~IsConnected(session) THEN "401"
                                                 ELSE IF ~complete THEN "400"
                                                 ELSE IF ok THEN "ok" ELSE "500"]
  /\ UNCHANGED << session, connected_once, since_logout >>
  /\ RouteFrame

\* the API routes that build a service, generate_report apart
ApiRequest ==
  /\ \E route \in ApiServiceRoutes, complete \in BOOLEAN, source \in SourceOutcomes :
       LET req == Incoming(route, "", complete)
       IN last_request' =
            IF ~IsConnected(session) THEN [req EXCEPT !.answer = "401"]
            ELSE IF route \in ValidatingRoutes /\ ~complete THEN [req EXCEPT !.answer = "400"]
            ELSE [req EXCEPT !.built = TRUE, !.gl_service = SessionService,
                             !.source = source,
                             !.answer = IF source = "raises" THEN "500" ELSE "ok"]
  /\ UNCHANGED << session, connected_once, since_logout >>
  /\ RouteFrame

\* the download routes
DownloadRequest ==
  /\ \E route \in DownloadRoutes, complete \in BOOLEAN, source \in SourceOutcomes :
       LET req == Incoming(route, "", complete)
       IN last_request' =
            IF ~IsConnected(session) THEN [req EXCEPT !.answer = "redirect_index"]
            ELSE IF route \in ValidatingRoutes /\ ~complete
                 THEN [req EXCEPT !.answer = "redirect_page"]
            ELSE [req EXCEPT !.built = TRUE, !.gl_service = SessionService,
                             !.source = source,
                             !.answer = IF source = "rows" THEN "file" ELSE "redirect_page"]
  /\ UNCHANGED << session, connected_once, since_logout >>
  /\ RouteFrame

\* generate_report()
GenerateReportRoute ==
  /\ \E report_type \in ReportTypes, complete \in BOOLEAN, labels \in BOOLEAN,
        source \in SourceOutcomes :
       LET req == Incoming("generate_report", report_type, complete)
           built == [req EXCEPT !.built = TRUE, !.gl_service = SessionService]
           outcome == ReportOutcome(report_type, source)
       IN last_request' =
            IF ~IsConnected(session) THEN [req EXCEPT !.answer = "401"]
            ELSE IF ~complete THEN [req EXCEPT !.answer = "400"]
            ELSE IF report_type = "defect_escape" /\ ~labels
                 THEN [built EXCEPT !.answer = "400"]
            ELSE [built EXCEPT
                    !.source = IF report_type = "milestone_analytics"
                                  /\ "get_milestones" \notin MilestoneAnalyticsReached
                               THEN "none"
                               ELSE IF report_type = "unknown" THEN "none" ELSE source,
                    !.reached = IF report_type = "milestone_analytics"
                                THEN MilestoneAnalyticsReached ELSE {},
                    !.answer = CASE outcome = "rows" -> "report"
                                 [] outcome = "empty" -> "error_msg"
                                 [] OTHER -> "internal_error"]
  /\ UNCHANGED << session, connected_once, since_logout >>
  /\ RouteFrame

InitRoutes ==
  /\ snapshot = {}
  /\ EscIdle
  /\ TrendIdle
  /\ LabelIdle
  /\ StatusIdle
  /\ TriageIdle
  /\ BurnIdle
  /\ TatIdle
  /\ ConIdle
  /\ EpicIdle
  /\ RouteIdle

NextRoutes ==
  \/ Index
  \/ Logout
  \/ PageRequest
  \/ PrdToStory
  \/ ApiRequest
  \/ DownloadRequest
  \/ GenerateReportRoute

SpecRoutes == InitRoutes /\ [][NextRoutes]_vars

\* C27: a protected route builds a GitLabService or contacts GitLab only when
\* the session is marked connected; with a session that is not, an API route
\* answers 401 and a page or download route redirects to the index; after a
\* logout the session stays unconnected until a connect succeeds.
C27_ProtectedRoutesGuarded ==
  /\ last_request.route \in ProtectedRoutes =>
       /\ last_request.built => last_request.connected
       /\ last_request.source # "none" => last_request.connected
       /\ ~last_request.connected =>
            last_request.answer = IF last_request.route \in ApiRoutes
                                  THEN "401" ELSE "redirect_index"
  /\ since_logout => ~session.is_connected

\* after a connect and a logout, generate_report was answered 401 and built no
\* service
C27_Witness ==
  /\ connected_once
  /\ since_logout
  /\ last_request.route = "generate_report"
  /\ last_request.complete
  /\ ~last_request.built
  /\ last_request.answer = "401"

\* C30: a generate_report request of type milestone_analytics carrying all its
\* parameters, from a connected session, reaches generate_milestone_list and
\* the milestone query with their arguments bound, and is answered with the
\* milestone list or with the operation's own empty-result message; when the
\* Issue Source does not fail it never ends in the internal-error branch.
C30_MilestoneAnalyticsAnswered ==
  (/\ last_request.route = "generate_report"
   /\ last_request.report_type = "milestone_analytics"
   /\ last_request.complete
   /\ last_request.connected) =>
     /\ { "generate_milestone_list", "get_milestones" } \subseteq last_request.reached
     /\ last_request.answer \in { "report", "error_msg", "internal_error" }
     /\ last_request.source # "raises" => last_request.answer # "internal_error"

(***************************************************************************)
(* The (result, errorMessage) pairs of the report entry points             *)
(***************************************************************************)
\* C11: every report entry point of ReportGenerator returns a pair (result,
\* errorMessage), and a call that completes returns either a non-empty result
\* with no error message or an empty result with a non-empty error message,
\* never an empty result together with no error (including the trend report
\* asked for zero months).
C11_ResultOrError ==
  /\ trend_pc = "done" => chart_data.labels # <<>>
  /\ ts_pc = "done" =>
       \/ ts_result.error = "" /\ ts_result.chart_data # <<>>
       \/ ts_result.error # "" /\ ts_result.chart_data = <<>>
  /\ tr_pc = "done" =>
       \/ tr_result.error = "" /\ tr_result.report # <<>>
       \/ tr_result.error # "" /\ tr_result.report = <<>>
  /\ bd_pc = "done" =>
       \/ bd_result.error = "" /\ bd_result.report # <<>>
       \/ bd_result.error # "" /\ bd_result.report = <<>>
  /\ tat_pc = "done" =>
       \/ tat_result.error = "" /\ tat_result.chart_data # <<>>
       \/ tat_result.error # "" /\ tat_result.chart_data = <<>>

\* the trend report of zero months: a chart of empty series, returned with no
\* error
C11_EmptyChartNoError ==
  /\ trend_pc = "done"
  /\ months = 0
  /\ chart_data = NoChart

====
